---------------------------- MODULE Spec2Model ----------------------------
(***************************************************************************)
(* Request authentication of the project template: the signed-request      *)
(* verifier (HttpAuthenticationMiddleware), the replay guard               *)
(* (NonceController) and the expiring cache (ConfigCache, local and        *)
(* remote backend) it stores nonces in.                                    *)
(*                                                                         *)
(* Time is in milliseconds since the epoch, as Date.now() gives it.        *)
(* Strings that the code parses are carried in parsed form; every check    *)
(* the code makes on them is made here on that form, in the code's order.  *)
(***************************************************************************)
EXTENDS Integers, Sequences, FiniteSets, TLC

(***************************************************************************)
(* Program constants.                                                      *)
(***************************************************************************)
\* Math.abs(Date.now() - dateInst.getTime()) > 300000
kFreshnessMs == 300000
\* Math.max(exp - now + 1000, 0): the margin the purge waiter adds
kPurgeMarginMs == 1000
\* let interval = 0x7fffffff
kMaxInterval == 2147483647

CONST_AUTHORIZATION_TYPE == "FOMOPAY1-RSA-SHA256"

(***************************************************************************)
(* Bounds of the model.                                                    *)
(***************************************************************************)
\* number of requests the server receives in one behaviour
MaxReq == 2
\* number of times the clock advances (by kFreshnessMs each time)
MaxTicks == 3

Undefined == "<undefined>"

(***************************************************************************)
(* Header names.  toLowerCase, the header-key regular expression and       *)
(* localeCompare are tabulated over the names the model uses.              *)
(***************************************************************************)
ToLowerCase(s) ==
    CASE s = "Host" -> "host"
      [] s = "Content-Type" -> "content-type"
      [] s = "X-Fomopay-Nonce" -> "x-fomopay-nonce"
      [] s = "X-Fomopay-Date" -> "x-fomopay-date"
      [] s = "X-Fomopay-Content-Sha256" -> "x-fomopay-content-sha256"
      [] s = "Accept" -> "accept"
      [] OTHER -> s

\* CONST_HTTP_HEADER_KEY_REGEX.test(key): "(" and ")" are outside the class
HeaderKeyRegexTest(key) == key \notin {"x(bad)"}

\* key.startsWith("x-fomopay-")
StartsWithXFomopay(key) ==
    key \in {"x-fomopay-nonce", "x-fomopay-date", "x-fomopay-content-sha256",
             "x-fomopay-extra"}

\* the names in a[0].localeCompare(b[0]) order
LocaleOrder ==
    <<"accept", "content-type", "host", "x-custom",
      "x-fomopay-content-sha256", "x-fomopay-date", "x-fomopay-extra",
      "x-fomopay-nonce">>

LocaleRank(name) == CHOOSE i \in 1..Len(LocaleOrder) : LocaleOrder[i] = name

\* String.prototype.trim on a header value
Trim(v) == IF v = " application/json " THEN "application/json" ELSE v


(***************************************************************************)
(* Dates.  new Date(s).getTime(), CONST_ISO8601_REGEX.exec(s),             *)
(* getIso8601Time(d) and Date.prototype.toISOString, tabulated over the    *)
(* date strings and instants the model uses.                               *)
(***************************************************************************)
\* isNaN(new Date(s).getTime())
DateIsNaN(s) == s \in {"yesterday", Undefined}

\* new Date(s).getTime()
DateGetTime(s) ==
    CASE s = "1970-01-01T00:00:00Z" -> 0
      [] s = "1970-01-01T00:04:59.999Z" -> 299999
      [] s = "1970-01-01T00:05:00Z" -> 300000
      [] s = "1970-01-01T00:05:00+00:00" -> 300000
      [] s = "1970-01-01T00:05:00.001Z" -> 300001
      [] s = "1970-01-01T00:05:00.1Z" -> 300100
      [] s = "1970-01-01T00:10:00Z" -> 600000
      [] OTHER -> 0

\* dateExec === null
Iso8601RegexIsNull(s) == s \in {"1970-01-01T00:05:00+00:00", "yesterday"}

\* dateExec[7] === undefined: no fractional-seconds group
Iso8601RegexNoFraction(s) ==
    s \notin {"1970-01-01T00:04:59.999Z", "1970-01-01T00:05:00.001Z",
              "1970-01-01T00:05:00.1Z"}

\* getIso8601Time(date): yyyy-MM-ddTHH:mm:ssZ, the milliseconds dropped
getIso8601Time(ms) ==
    CASE ms = 0 -> "1970-01-01T00:00:00Z"
      [] ms = 299999 -> "1970-01-01T00:04:59Z"
      [] ms \in {300000, 300001, 300100} -> "1970-01-01T00:05:00Z"
      [] ms = 600000 -> "1970-01-01T00:10:00Z"
      [] OTHER -> "?"

\* date.toISOString(): yyyy-MM-ddTHH:mm:ss.sssZ
toISOString(ms) ==
    CASE ms = 0 -> "1970-01-01T00:00:00.000Z"
      [] ms = 299999 -> "1970-01-01T00:04:59.999Z"
      [] ms = 300000 -> "1970-01-01T00:05:00.000Z"
      [] ms = 300001 -> "1970-01-01T00:05:00.001Z"
      [] ms = 300100 -> "1970-01-01T00:05:00.100Z"
      [] ms = 600000 -> "1970-01-01T00:10:00.000Z"
      [] OTHER -> "?"

(***************************************************************************)
(* Bodies, digests, keys.                                                  *)
(***************************************************************************)
JsonBody == "{\"amount\":\"100\"}"
JsonBodyTampered == "{\"amount\":\"900\"}"
MalformedBody == "{\"amount\":"

\* crypto.createHash("SHA256").update(buf).digest("hex").toLowerCase():
\* one digest per body, no two bodies share one
Sha256Hex(body) ==
    CASE body = "" ->
           "e3b0c44298fc1c149afbf4c8996fb92427ae41e4649b934ca495991b7852b855"
      [] body = JsonBody -> "sha256-of-amount-100"
      [] body = JsonBodyTampered -> "sha256-of-amount-900"
      [] body = MalformedBody -> "sha256-of-malformed"
      [] OTHER -> "sha256-of-other"

\* JSON.parse(reqBody.toString()) throws
JsonParseThrows(body) == body = MalformedBody

\* the value JSON.parse returns
JsonParse(body) == [parsed |-> body]

\* /^[0-9A-Za-z]{16,256}$/.test(nonce)
NonceRegexTest(nonce) == nonce \in {"N0ABCDEF0123456789", "N0ABCDEF0123456780"}

\* the rows of the merchant table that merchantConfig.get reads: the public
\* key registered for a merchant; Undefined is a NULL column
MerchantRegistered(merchant) ==
    merchant \in {"merchant-1", "merchant-2", "merchant-nokey", "merchant-badkey"}

MerchantPublicKey(merchant) ==
    CASE merchant = "merchant-1" -> "PUB-1"
      [] merchant = "merchant-2" -> "PUB-2"
      [] merchant = "merchant-badkey" -> "not-a-pem"
      [] OTHER -> Undefined

\* the private key a public key belongs to
PrivateKeyOf(publicKey) ==
    CASE publicKey = "PUB-1" -> "PRIV-1"
      [] publicKey = "PUB-2" -> "PRIV-2"
      [] OTHER -> "none"

\* verify.verify(publicKey, signature, "hex") throws: the key is no PEM key
VerifyThrows(publicKey) == publicKey \notin {"PUB-1", "PUB-2"}

\* verify.verify(publicKey, signature, "hex") over stringToSign: an RSA-SHA256
\* signature verifies iff it was made with the matching private key over the
\* same bytes
VerifySignature(publicKey, stringToSign, signature) ==
    /\ signature.key = PrivateKeyOf(publicKey)
    /\ signature.msg = stringToSign

(***************************************************************************)
(* HttpAuthenticationMiddleware, the part before the first await (lines    *)
(* 102-417): every check in the code's order.  A result is                 *)
(*   [kind |-> "AuthError", code |-> c]  an AuthError with that code,      *)
(*   [kind |-> "Error", code |-> 0]      another exception,                *)
(*   [kind |-> "ok", ...]                the values later steps use.       *)
(***************************************************************************)
AuthError(c) == [kind |-> "AuthError", code |-> c]
OtherError == [kind |-> "Error", code |-> 0]

\* req.headers[name]: Node's lower-cased header map, the value of the first
\* raw header of that name, Undefined when there is none
RECURSIVE HeaderLookup(_, _, _)
HeaderLookup(rawHeaders, name, i) ==
    IF i > Len(rawHeaders) THEN Undefined
    ELSE IF ToLowerCase(rawHeaders[i][1]) = name THEN rawHeaders[i][2]
    ELSE HeaderLookup(rawHeaders, name, i + 1)

ReqHeader(req, name) == HeaderLookup(req.rawHeaders, name, 1)

\* the reduce over the credential fields (lines 150-177): 0 when every field
\* is taken, else the code of the first AuthError
RECURSIVE ReduceCredentialFields(_, _, _)
ReduceCredentialFields(fields, i, keys) ==
    IF i > Len(fields) THEN 0
    ELSE IF ~fields[i].hasValue THEN 5
    ELSE IF fields[i].key = "" THEN 6
    ELSE IF fields[i].key \in keys THEN 7
    ELSE ReduceCredentialFields(fields, i + 1, keys \cup {fields[i].key})

CredentialKeys(fields) == {fields[i].key : i \in 1..Len(fields)}

SeqToSet(q) == {q[i] : i \in 1..Len(q)}

\* a header that must be signed when the request carries it (the switch of
\* lines 230-238), without host
CompulsoryHeaderButHost(key) == key = "content-type" \/ StartsWithXFomopay(key)

\* the switch without its x-fomopay- case
CompulsoryHeaderHostContentType(key) == key = "host" \/ key = "content-type"

\* a header that must be signed when the request carries it (the switch of
\* lines 230-238)
CompulsoryHeader(key) ==
    key = "host" \/ key = "content-type" \/ StartsWithXFomopay(key)

\* a scan that takes a signed header however often it occurs
DuplicateHeaderIgnored(key, signedHeadersSet) == FALSE

\* !signedHeadersSet.has(key) for a declared key (lines 241-246): the header
\* has been found before
DuplicateHeader(key, signedHeadersSet) == key \notin signedHeadersSet

\* the scan of req.rawHeaders (lines 221-250).  signedHeadersFull stays as
\* declared, signedHeadersSet loses every header found, headersRaw collects
\* the trimmed values.  code = 0 when the scan completes.
RECURSIVE CollectSignedHeaders(_, _, _, _, _)
CollectSignedHeaders(rawHeaders, i, signedHeadersFull, signedHeadersSet, headersRaw) ==
    IF i > Len(rawHeaders)
    THEN [code |-> 0, signedHeadersSet |-> signedHeadersSet, headersRaw |-> headersRaw]
    ELSE LET key == ToLowerCase(rawHeaders[i][1])
             stop == [code |-> 16, signedHeadersSet |-> signedHeadersSet,
                      headersRaw |-> headersRaw]
         IN  IF ~HeaderKeyRegexTest(key) THEN stop
             ELSE IF key \notin signedHeadersFull
             THEN IF CompulsoryHeader(key)
                  THEN stop
                  ELSE CollectSignedHeaders(rawHeaders, i + 1, signedHeadersFull,
                                            signedHeadersSet, headersRaw)
             ELSE IF DuplicateHeader(key, signedHeadersSet) THEN stop
             ELSE CollectSignedHeaders(rawHeaders, i + 1, signedHeadersFull,
                                       signedHeadersSet \ {key},
                                       headersRaw @@ (key :> Trim(rawHeaders[i][2])))

\* Object.entries(headersRaw).sort(localeCompare): the keys in sorted order,
\* the i-th being the one with i-1 keys before it
SortByLocale(names) ==
    [i \in 1..Cardinality(names) |->
        CHOOSE n \in names :
            Cardinality({m \in names : LocaleRank(m) < LocaleRank(n)}) = i - 1]

\* canonicalHeaders: key:value\n of every collected header, sorted
CanonicalHeaders(headersRaw) ==
    [i \in 1..Cardinality(DOMAIN headersRaw) |->
        <<SortByLocale(DOMAIN headersRaw)[i],
          headersRaw[SortByLocale(DOMAIN headersRaw)[i]]>>]

\* req.method.toUpperCase()
ToUpperCase(method) ==
    CASE method = "get" -> "GET" [] method = "post" -> "POST" [] OTHER -> method

\* lines 371-402; the SHA-256 of the canonical request is carried as the
\* canonical request itself (no two canonical requests share a digest)
CanonicalRequest(method, fullUrl, headersRaw, signedHeaders, hashedPayload) ==
    [httpVerb |-> ToUpperCase(method),
     canonicalUri |-> fullUrl.pathname,
     canonicalQueryString |-> fullUrl.query,
     canonicalHeaders |-> CanonicalHeaders(headersRaw),
     signedHeaders |-> signedHeaders,
     hashedPayload |-> hashedPayload]

\* lines 410-417
StringToSign(xFomopayDate, xFomopayNonce, hashedCanonicalRequest) ==
    [scheme |-> CONST_AUTHORIZATION_TYPE, date |-> xFomopayDate,
     nonce |-> xFomopayNonce, hashedCanonicalRequest |-> hashedCanonicalRequest]

\* a comparison of the digests that never finds a difference
PayloadHashMismatchNever(xFomopayContentSha256, hashedPayload) == FALSE

\* xFomopayContentSha256 !== hashedPayload (line 309)
PayloadHashMismatch(xFomopayContentSha256, hashedPayload) ==
    xFomopayContentSha256 # hashedPayload

\* a comparison of the header lists as sets, whatever their order
SignedHeadersMismatchUnordered(signedHeaders, authorizationCredentialSignedHeaders) ==
    SeqToSet(signedHeaders) # SeqToSet(authorizationCredentialSignedHeaders)

\* signedHeaders !== authorizationCredentialSignedHeaders (line 263), the
\* joined strings carried as the sequences of names
SignedHeadersMismatch(signedHeaders, authorizationCredentialSignedHeaders) ==
    signedHeaders # authorizationCredentialSignedHeaders

\* lines 102-417, up to the await of merchantConfig.get
VerifyHeaders(req) ==
    LET a == req.authorization
        signedHeadersRaw == a.SignedHeaders
        signedHeadersFull == SeqToSet(signedHeadersRaw)
        scan == CollectSignedHeaders(req.rawHeaders, 1, signedHeadersFull,
                                     signedHeadersFull, <<>>)
        headersRaw == scan.headersRaw
        signedHeaders == SortByLocale(DOMAIN headersRaw)
        xFomopayNonce == ReqHeader(req, "x-fomopay-nonce")
        xFomopayContentSha256 == ReqHeader(req, "x-fomopay-content-sha256")
        xFomopayDate == ReqHeader(req, "x-fomopay-date")
        reqBody == IF req.bodyIsBuffer THEN req.body ELSE ""
        hashedPayload == Sha256Hex(reqBody)
        dateTime == DateGetTime(xFomopayDate)
        fieldsCode == ReduceCredentialFields(a.fields, 1, {})
    IN  IF ~a.present THEN AuthError(1)
        ELSE IF ~a.hasCredentials THEN AuthError(3)
        ELSE IF a.type # CONST_AUTHORIZATION_TYPE THEN AuthError(4)
        ELSE IF fieldsCode # 0 THEN AuthError(fieldsCode)
        ELSE IF CredentialKeys(a.fields) # {"Credential", "SignedHeaders", "Signature"}
             THEN AuthError(8)
        ELSE IF Len(signedHeadersRaw) # Cardinality(signedHeadersFull) THEN AuthError(9)
        ELSE IF ~req.fullUrl.valid THEN OtherError
        ELSE IF req.rawHeadersOdd THEN OtherError
        ELSE IF scan.code # 0 THEN AuthError(scan.code)
        ELSE IF scan.signedHeadersSet # {} THEN AuthError(17)
        ELSE IF SignedHeadersMismatch(signedHeaders, signedHeadersRaw) THEN AuthError(18)
        ELSE IF xFomopayNonce = Undefined THEN AuthError(19)
        ELSE IF ~NonceRegexTest(xFomopayNonce) THEN AuthError(20)
        ELSE IF xFomopayContentSha256 = Undefined THEN AuthError(21)
        ELSE IF PayloadHashMismatch(xFomopayContentSha256, hashedPayload)
             THEN AuthError(22)
        ELSE IF xFomopayDate = Undefined THEN AuthError(19)
        ELSE IF DateIsNaN(xFomopayDate) THEN AuthError(20)
        ELSE IF (Iso8601RegexIsNull(xFomopayDate) \/ Iso8601RegexNoFraction(xFomopayDate))
                /\ getIso8601Time(dateTime) # xFomopayDate
             THEN AuthError(21)
        ELSE IF ~(Iso8601RegexIsNull(xFomopayDate) \/ Iso8601RegexNoFraction(xFomopayDate))
                /\ toISOString(dateTime) # xFomopayDate
             THEN AuthError(22)
        ELSE [kind |-> "ok", code |-> 0,
              authorizationCredentialCredential |-> a.Credential,
              authorizationCredentialSignature |-> a.Signature,
              xFomopayNonce |-> xFomopayNonce,
              dateTime |-> dateTime,
              reqBody |-> reqBody,
              headersRaw |-> headersRaw,
              method |-> req.method,
              stringToSign |->
                  StringToSign(xFomopayDate, xFomopayNonce,
                      CanonicalRequest(req.method, req.fullUrl, headersRaw,
                                       signedHeaders, hashedPayload))]

(***************************************************************************)
(* The requests the model sends.  SignedRequest is what a client holding   *)
(* privateKey sends for (merchant, nonce, method, date, body): the five    *)
(* compulsory headers signed, in sorted order.  The other requests differ  *)
(* from it in the one place a check looks at.                              *)
(***************************************************************************)
SignedHeaderNames ==
    <<"content-type", "host", "x-fomopay-content-sha256", "x-fomopay-date",
      "x-fomopay-nonce">>

RequestHeaders(nonce, date, digest) ==
    << <<"Host", "api.example.net">>,
       <<"Accept", "*/*">>,
       <<"Content-Type", " application/json ">>,
       <<"X-Fomopay-Nonce", nonce>>,
       <<"X-Fomopay-Date", date>>,
       <<"X-Fomopay-Content-Sha256", digest>> >>

CredentialFields ==
    << [key |-> "Credential", hasValue |-> TRUE],
       [key |-> "SignedHeaders", hasValue |-> TRUE],
       [key |-> "Signature", hasValue |-> TRUE] >>

\* a Signature field that is the signature of nothing
NoSignature ==
    [key |-> "none",
     msg |-> StringToSign("", "",
                 CanonicalRequest("", [pathname |-> "", query |-> ""], <<>>, <<>>, ""))]

UnsignedRequest(merchant, nonce, method, date, body) ==
    [method |-> method,
     fullUrl |-> [valid |-> TRUE, pathname |-> "/v1/charge", query |-> ""],
     authorization |->
         [present |-> TRUE, hasCredentials |-> TRUE,
          type |-> CONST_AUTHORIZATION_TYPE,
          fields |-> CredentialFields,
          Credential |-> merchant,
          SignedHeaders |-> SignedHeaderNames,
          Signature |-> NoSignature],
     rawHeaders |-> RequestHeaders(nonce, date, Sha256Hex(body)),
     rawHeadersOdd |-> FALSE,
     body |-> body,
     bodyIsBuffer |-> TRUE]

\* the client's side of the protocol: sign the string-to-sign of the request
Sign(req, privateKey) ==
    [req EXCEPT !.authorization.Signature =
        [key |-> privateKey, msg |-> VerifyHeaders(req).stringToSign]]

SignedRequest(merchant, nonce, method, date, body) ==
    Sign(UnsignedRequest(merchant, nonce, method, date, body),
         PrivateKeyOf(MerchantPublicKey(merchant)))

Nonce1 == "N0ABCDEF0123456789"
Nonce2 == "N0ABCDEF0123456780"
DateFresh == "1970-01-01T00:05:00Z"

BaseRequest == SignedRequest("merchant-1", Nonce1, "POST", DateFresh, JsonBody)

WithoutHeader(rawHeaders, name) ==
    SelectSeq(rawHeaders, LAMBDA h : ToLowerCase(h[1]) # name)

WithoutName(names, name) == SelectSeq(names, LAMBDA n : n # name)

\* validly signed requests of registered merchants
HonestRequests(baseRequest) ==
    ("POST m1 n1" :> baseRequest)
    @@ ("GET m1 n1" :> SignedRequest("merchant-1", Nonce1, "GET", DateFresh, JsonBody))
    @@ ("HEAD m1 n1" :> SignedRequest("merchant-1", Nonce1, "HEAD", DateFresh, ""))
    @@ ("POST m1 n2" :> SignedRequest("merchant-1", Nonce2, "POST", DateFresh, JsonBody))
    @@ ("POST m2 n1" :> SignedRequest("merchant-2", Nonce1, "POST", DateFresh, JsonBody))
    @@ ("GET m2 n1" :> SignedRequest("merchant-2", Nonce1, "GET", DateFresh, JsonBody))
    @@ ("POST m1 n1 dated 299999" :>
            SignedRequest("merchant-1", Nonce1, "POST", "1970-01-01T00:04:59.999Z", JsonBody))
    @@ ("POST m1 n1 dated 300001" :>
            SignedRequest("merchant-1", Nonce1, "POST", "1970-01-01T00:05:00.001Z", JsonBody))
    @@ ("POST m1 n1 malformed json" :>
            SignedRequest("merchant-1", Nonce1, "POST", DateFresh, MalformedBody))
    @@ ("POST m1 n2 body no buffer" :>
            Sign([UnsignedRequest("merchant-1", Nonce2, "POST", DateFresh, "")
                     EXCEPT !.bodyIsBuffer = FALSE, !.body = JsonBody], "PRIV-1"))

\* requests that pass every header check and fail at the merchant or the
\* signature
UnverifiableRequests(baseRequest) ==
    ("unknown merchant" :>
        Sign(UnsignedRequest("merchant-x", Nonce1, "POST", DateFresh, JsonBody), "PRIV-1"))
    @@ ("merchant without key" :>
        Sign(UnsignedRequest("merchant-nokey", Nonce1, "POST", DateFresh, JsonBody), "PRIV-1"))
    @@ ("merchant key no pem" :>
        Sign(UnsignedRequest("merchant-badkey", Nonce1, "POST", DateFresh, JsonBody), "PRIV-1"))
    @@ ("signed with another key" :>
        Sign(UnsignedRequest("merchant-1", Nonce1, "POST", DateFresh, JsonBody), "PRIV-2"))
    @@ ("body and digest replaced" :>
        [baseRequest EXCEPT !.body = JsonBodyTampered,
            !.rawHeaders = RequestHeaders(Nonce1, DateFresh, Sha256Hex(JsonBodyTampered))])
    @@ ("nonce replaced" :>
        [baseRequest EXCEPT !.rawHeaders =
            RequestHeaders(Nonce2, DateFresh, Sha256Hex(JsonBody))])
    @@ ("stale signed 299999 as 300001" :>
        [baseRequest EXCEPT !.rawHeaders =
            RequestHeaders(Nonce1, "1970-01-01T00:05:00.001Z", Sha256Hex(JsonBody))])

\* requests that fail a header check
MalformedRequests(baseRequest) ==
    ("no authorization" :> [baseRequest EXCEPT !.authorization.present = FALSE])
    @@ ("no credentials" :> [baseRequest EXCEPT !.authorization.hasCredentials = FALSE])
    @@ ("other scheme" :> [baseRequest EXCEPT !.authorization.type = "Bearer"])
    @@ ("field without value" :>
        [baseRequest EXCEPT !.authorization.fields[3].hasValue = FALSE])
    @@ ("empty field key" :> [baseRequest EXCEPT !.authorization.fields[2].key = ""])
    @@ ("duplicate field key" :>
        [baseRequest EXCEPT !.authorization.fields[3].key = "Credential"])
    @@ ("missing field" :>
        [baseRequest EXCEPT !.authorization.fields = SubSeq(CredentialFields, 1, 2)])
    @@ ("duplicate signed header name" :>
        [baseRequest EXCEPT !.authorization.SignedHeaders = SignedHeaderNames \o <<"host">>])
    @@ ("invalid url" :> [baseRequest EXCEPT !.fullUrl.valid = FALSE])
    @@ ("odd raw headers" :> [baseRequest EXCEPT !.rawHeadersOdd = TRUE])
    @@ ("invalid header key" :>
        [baseRequest EXCEPT !.rawHeaders = @ \o << <<"x(bad)", "1">> >>])
    @@ ("host not signed" :>
        [baseRequest EXCEPT !.authorization.SignedHeaders =
            WithoutName(SignedHeaderNames, "host")])
    @@ ("host twice" :>
        [baseRequest EXCEPT !.rawHeaders = @ \o << <<"host", "evil.example.net">> >>])
    @@ ("signed header not sent" :>
        [baseRequest EXCEPT !.authorization.SignedHeaders =
            <<"content-type", "host", "x-custom", "x-fomopay-content-sha256",
              "x-fomopay-date", "x-fomopay-nonce">>])
    @@ ("signed headers unsorted" :>
        [baseRequest EXCEPT !.authorization.SignedHeaders =
            <<"host", "content-type", "x-fomopay-content-sha256", "x-fomopay-date",
              "x-fomopay-nonce">>])
    @@ ("no nonce header" :>
        [baseRequest EXCEPT !.rawHeaders = WithoutHeader(@, "x-fomopay-nonce"),
            !.authorization.SignedHeaders =
                WithoutName(SignedHeaderNames, "x-fomopay-nonce")])
    @@ ("short nonce" :>
        [baseRequest EXCEPT !.rawHeaders =
            RequestHeaders("short", DateFresh, Sha256Hex(JsonBody))])
    @@ ("no digest header" :>
        [baseRequest EXCEPT !.rawHeaders = WithoutHeader(@, "x-fomopay-content-sha256"),
            !.authorization.SignedHeaders =
                WithoutName(SignedHeaderNames, "x-fomopay-content-sha256")])
    @@ ("body replaced" :> [baseRequest EXCEPT !.body = JsonBodyTampered])
    @@ ("no date header" :>
        [baseRequest EXCEPT !.rawHeaders = WithoutHeader(@, "x-fomopay-date"),
            !.authorization.SignedHeaders =
                WithoutName(SignedHeaderNames, "x-fomopay-date")])
    @@ ("date no date" :>
        [baseRequest EXCEPT !.rawHeaders =
            RequestHeaders(Nonce1, "yesterday", Sha256Hex(JsonBody))])
    @@ ("date with offset" :>
        [baseRequest EXCEPT !.rawHeaders =
            RequestHeaders(Nonce1, "1970-01-01T00:05:00+00:00", Sha256Hex(JsonBody))])
    @@ ("date with short fraction" :>
        [baseRequest EXCEPT !.rawHeaders =
            RequestHeaders(Nonce1, "1970-01-01T00:05:00.1Z", Sha256Hex(JsonBody))])

\* what a client sends that leaves header name out of its request and out of
\* SignedHeaders, and signs the rest
SignedRequestWithout(baseRequest, name) ==
    Sign([baseRequest EXCEPT !.rawHeaders = WithoutHeader(@, name),
              !.authorization.SignedHeaders = WithoutName(@, name),
              !.authorization.Signature = NoSignature], "PRIV-1")

\* the request sent with all its headers, one of them left out of
\* SignedHeaders, and signed by a client that folds the declared headers only
SignedForDeclared(baseRequest, name) ==
    LET declared == WithoutName(baseRequest.authorization.SignedHeaders, name)
        headersRaw == [h \in SeqToSet(declared) |-> Trim(ReqHeader(baseRequest, h))]
    IN  [baseRequest EXCEPT
            !.authorization.SignedHeaders = declared,
            !.authorization.Signature =
                [key |-> "PRIV-1",
                 msg |-> StringToSign(ReqHeader(baseRequest, "x-fomopay-date"),
                             ReqHeader(baseRequest, "x-fomopay-nonce"),
                             CanonicalRequest(baseRequest.method, baseRequest.fullUrl,
                                 headersRaw, SortByLocale(DOMAIN headersRaw),
                                 Sha256Hex(baseRequest.body)))]]

\* requests whose SignedHeaders leaves out host, content-type or the nonce
\* header, the signature being valid for what is declared: the first two do
\* not send the header, the last three send it
PartlySignedRequests(baseRequest) ==
    ("no host header" :> SignedRequestWithout(baseRequest, "host"))
    @@ ("no content-type header" :> SignedRequestWithout(baseRequest, "content-type"))
    @@ ("host sent, rest signed" :>
        [SignedRequestWithout(baseRequest, "host")
            EXCEPT !.rawHeaders = baseRequest.rawHeaders])
    @@ ("content-type sent, rest signed" :>
        [SignedRequestWithout(baseRequest, "content-type")
            EXCEPT !.rawHeaders = baseRequest.rawHeaders])
    @@ ("nonce sent, rest signed" :> SignedForDeclared(baseRequest, "x-fomopay-nonce"))

\* the base request declaring the digest of its body in upper-case hex
MisdeclaredRequests(baseRequest) ==
    ("digest in upper case" :>
        [baseRequest EXCEPT !.rawHeaders =
            RequestHeaders(Nonce1, DateFresh, "SHA256-OF-AMOUNT-100")])

\* every request of the model, by name
RequestTable ==
    HonestRequests(BaseRequest) @@ UnverifiableRequests(BaseRequest)
        @@ MalformedRequests(BaseRequest) @@ PartlySignedRequests(BaseRequest)
        @@ MisdeclaredRequests(BaseRequest)

\* what lines 102-417 make of each request
Verified == [name \in DOMAIN RequestTable |-> VerifyHeaders(RequestTable[name])]

Requests == DOMAIN Verified

(***************************************************************************)
(* ConfigCache.  kConfigCacheElement (null) is the only value the replay   *)
(* guard stores.                                                           *)
(***************************************************************************)
kConfigCacheElement == "null"

\* options.ttl of the cache the replay guard is built on, in seconds
TtlChoices == {300, 600}

\* encodeURIComponent: the names and nonces that reach the replay guard hold
\* unreserved characters only, which it leaves alone; "/" becomes %2F
EncodeURIComponent(s) ==
    CASE s = "merchant-1/N0ABCDEF0123456789" -> "merchant-1%2FN0ABCDEF0123456789"
      [] s = "merchant-1/N0ABCDEF0123456780" -> "merchant-1%2FN0ABCDEF0123456780"
      [] s = "merchant-2/N0ABCDEF0123456789" -> "merchant-2%2FN0ABCDEF0123456789"
      [] s = "merchant-2/N0ABCDEF0123456780" -> "merchant-2%2FN0ABCDEF0123456780"
      [] s = "a/b" -> "a%2Fb"
      [] s = "b/c" -> "b%2Fc"
      [] s = "a%2Fb/c" -> "a%252Fb%2Fc"
      [] s = "a/b%2Fc" -> "a%2Fb%252Fc"
      [] OTHER -> s

\* a cache key made of the service alone
TokenOfService(service, nonce) == EncodeURIComponent(service)

\* NonceController.add: the cache key of (service, nonce)
Token(service, nonce) ==
    EncodeURIComponent(service) \o "/" \o EncodeURIComponent(nonce)

\* writing m[k] = v on a map
MapPut(m, k, v) == [x \in DOMAIN m \cup {k} |-> IF x = k THEN v ELSE m[x]]

EmptyMap == [x \in {} |-> [exp |-> 0, value |-> kConfigCacheElement]]

\* a set that adds the ttl to the clock without converting it to ms
LocalSetInSeconds(data, key, value, ttl, t) ==
    MapPut(data, key, [exp |-> ttl + t, value |-> value])

\* ConfigCacheLocal.set, without options: exp = this.optTtlMs + now
LocalSet(data, key, value, ttl, t) ==
    MapPut(data, key, [exp |-> ttl * 1000 + t, value |-> value])

\* ConfigCacheLocal.get
LocalGet(data, key) ==
    IF key \notin DOMAIN data THEN Undefined ELSE data[key].value

\* ConfigCacheLocal.purge
LocalPurge(data, t) ==
    [k \in {x \in DOMAIN data : data[x].exp > t} |-> data[k]]

Min(a, b) == IF a <= b THEN a ELSE b
Max(a, b) == IF a >= b THEN a ELSE b

\* ConfigCacheLocal.interval
RECURSIVE IntervalOver(_, _, _, _)
IntervalOver(data, keys, t, interval) ==
    IF keys = {} THEN interval
    ELSE LET k == CHOOSE x \in keys : TRUE
             int == Max(data[k].exp - t + kPurgeMarginMs, 0)
         IN  IntervalOver(data, keys \ {k}, t, Min(int, interval))

LocalInterval(data, t) == IntervalOver(data, DOMAIN data, t, kMaxInterval)

\* ConfigCacheRemote.generateKey
GenerateKey(key) == "ConfigCache/project/scope/" \o EncodeURIComponent(key)

\* v8.serialize(value).toString("base64") and v8.deserialize of it
V8Serialize(value) ==
    CASE value = "null" -> "/w8w"
      [] value = "v1" -> "/w8iAnYx"
      [] value = "v2" -> "/w8iAnYy"
      [] OTHER -> "?"
\* the stored text handed back as it is
V8DeserializeRaw(text) == text

\* v8.deserialize(Buffer.from(response, "base64"))
V8Deserialize(text) ==
    CASE text = "/w8w" -> "null"
      [] text = "/w8iAnYx" -> "v1"
      [] text = "/w8iAnYy" -> "v2"
      [] OTHER -> "?"

\* ConfigCacheRemote.set, without options, the store answering: SETEX key ttl
RemoteSet(store, key, value, ttl, t) ==
    IF ttl <= 0 THEN store
    ELSE MapPut(store, GenerateKey(key),
                [exp |-> t + ttl * 1000, value |-> V8Serialize(value)])

\* ConfigCacheRemote.get, the store answering: GET key gives null for a key
\* that was never set or whose time to live has run out (the store holds a
\* key up to and including the instant its time to live ends)
RemoteGet(store, key, t) ==
    IF GenerateKey(key) \in DOMAIN store /\ store[GenerateKey(key)].exp >= t
    THEN V8Deserialize(store[GenerateKey(key)].value)
    ELSE Undefined

(***************************************************************************)
(* The other modules of the project template: the local Mutex, the         *)
(* PromisePool, the DatabaseConnection and the Xchange client.  Their      *)
(* states after construction; their operations follow the verifier's.      *)
(***************************************************************************)
kMaxLocksPerKeyword == 50
kMaxPendingLocks == 10000

MaxClients == 3
MaxReleaseCalls == 2
MaxJobs == 4
MaxOps == 4
MaxTries == 3

\* the callers of the mutex; each keeps the last lock object it was given
Clients == 1 .. MaxClients

\* the keywords the callers lock; {} stands for "no keywords": the global lock
Keywords == {"a", "b"}

\* no lock object yet
NoLock == [made |-> FALSE, optKeywords |-> {}, dataUnlocked |-> FALSE, releaseCalls |-> 0]

\* new Mutex(): no locks, nothing pending; lock[c] is the lock object of
\* caller c, last the last call made and thrown its error ("" for none)
NewMutex ==
    [dataLocks |-> {}, dataPending |-> <<>>, dataLocked |-> FALSE,
     dataPendingLocksCount |-> [k \in Keywords |-> 0],
     lock |-> [c \in Clients |-> NoLock],
     last |-> [op |-> "none", client |-> 0], thrown |-> ""]

\* new PromisePool({concurrencyLevel}): jobs are the run calls made so far,
\* in order, dataQueue holds their indices, started the order of the calls
\* of optJob
NewPromisePool(concurrencyLevel) ==
    [optConcurrencyLevel |-> concurrencyLevel, dataRunnerJobs |-> 0,
     dataQueue |-> <<>>, jobs |-> <<>>, started |-> <<>>]

\* new DatabaseConnection(poolClient): the private fields, and what the pool
\* client has seen: released (the arguments of poolClient.release), inFlight
\* (the queries it has not answered yet), and the calls made so far
NewDatabaseConnection ==
    [error |-> FALSE, inTransaction |-> FALSE, released |-> FALSE,
     poolReleased |-> <<>>, inFlight |-> <<>>, calls |-> <<>>]

\* no requestWithRetry call made yet
XchangeIdle ==
    [pc |-> "idle", tries |-> 0, i |-> 0, attempts |-> <<>>, thrown |-> "",
     returned |-> FALSE]

(***************************************************************************)
(* State.                                                                  *)
(***************************************************************************)
VARIABLES
    now,                \* Date.now()
    optImplementation,  \* ConfigCache.optImplementation: "Local" or "Remote"
    optTtl,             \* options.ttl of that cache, in seconds
    dataData,           \* ConfigCacheLocal.dataData
    timerStart,         \* when the purge waiter called timer.delay(ms)
    timerMs,            \* the ms it passed to setTimeout
    redis,              \* the keys of the external store, with their expiry
    reqs,               \* the requests: where each one is in the middleware
    call,               \* the last call made on the cache by a direct caller
    waiter,             \* the purge loop of the local cache and its timer
    mutex,              \* a Mutex (Local) and the lock objects of its callers
    pool,               \* a PromisePool and its jobs
    conn,               \* a DatabaseConnection and its pool client
    xchange             \* a requestWithRetry call of the Xchange client

vars ==
    <<now, optImplementation, optTtl, dataData, timerStart, timerMs, redis, reqs,
      call, waiter, mutex, pool, conn, xchange>>

\* the modules that the verifier and its cache do not touch
others == <<mutex, pool, conn, xchange>>

\* the state of the verifier, its cache and the cache's waiter
verifier ==
    <<now, optImplementation, optTtl, dataData, timerStart, timerMs, redis, reqs,
      call, waiter>>

\* construction of the other modules
OthersInit ==
    /\ mutex = NewMutex
    /\ pool = NewPromisePool(1)
    /\ conn = NewDatabaseConnection
    /\ xchange = XchangeIdle

\* The purge loop of the local cache and its CancelableTimer.  pc is the
\* position of the loop: "await" inside await timer.delay(...), "rejected" and
\* "resolved" when the promise of delay has been settled and the loop's
\* continuation is queued, "spinning" when delay() has thrown because a delay
\* was in progress (the loop catches the error and calls delay() again, which
\* throws again).  dataActive is the timer's field; dataTimer tells whether
\* the field holds a timeout that has not fired yet; timeouts counts the
\* timeouts of the timer that the runtime holds.
\* The state after the constructor: the loop has called delay(interval()) on
\* the empty cache.
WaiterAwaiting ==
    [pc |-> "await", dataActive |-> TRUE, dataTimer |-> "pending", timeouts |-> 1]

\* a done() that forgets clearTimeout
TimerDoneKeepingTimeout(timer, err) ==
    IF ~timer.dataActive
    THEN [timer EXCEPT !.dataActive = FALSE, !.dataTimer = "undefined"]
    ELSE [timer EXCEPT !.pc = IF err THEN "rejected" ELSE "resolved",
                       !.dataActive = FALSE, !.dataTimer = "undefined"]

\* CancelableTimer.done(err)
TimerDone(timer, err) ==
    IF ~timer.dataActive
    THEN [timer EXCEPT !.dataActive = FALSE, !.dataTimer = "undefined"]
    ELSE [timer EXCEPT !.timeouts = IF timer.dataTimer = "pending" THEN @ - 1 ELSE @,
                       !.pc = IF err THEN "rejected" ELSE "resolved",
                       !.dataActive = FALSE, !.dataTimer = "undefined"]

\* CancelableTimer.delay(ms), ms >= 0, called by the purge loop
TimerDelay(timer) ==
    IF timer.dataActive THEN [timer EXCEPT !.pc = "spinning"]
    ELSE [timer EXCEPT !.pc = "await", !.dataActive = TRUE,
                       !.dataTimer = "pending", !.timeouts = @ + 1]

\* a cancel() that leaves the timer alone
TimerCancelNothing(timer) == timer

\* CancelableTimer.cancel()
TimerCancel(timer) == TimerDone(timer, TRUE)

ReqIds == 1..MaxReq

NoResponse ==
    [status |-> 0, wwwAuthenticate |-> "", body |-> [message |-> "", hint |-> 0]]

NoAuthentication ==
    [attached |-> FALSE, merchant |-> "", jsonDefined |-> FALSE,
     json |-> JsonParse(""), headers |-> <<>>]

NotThrown == [kind |-> "none", code |-> 0]

\* a request the server has not received yet
IdleRequest ==
    [pc |-> "idle", input |-> "POST m1 n1", replayed |-> FALSE,
     exists |-> FALSE, addCalls |-> 0, addResult |-> "none", overlap |-> {},
     ioErrors |-> {},
     thrown |-> NotThrown, response |-> NoResponse,
     nextCalls |-> 0, nextError |-> FALSE,
     httpAuthentication |-> NoAuthentication]

\* no call made: the cache is used by the replay guard alone
NoCall ==
    [seq |-> 0, op |-> "none", key |-> "", value |-> "",
     options |-> [given |-> FALSE, ttl |-> 0, absolute |-> FALSE], ioError |-> FALSE,
     threw |-> FALSE, result |-> Undefined, deleted |-> {}, executed |-> {}]

\* the freshness test without Math.abs: only a date in the future is refused
TimestampOutOfRangeNoAbs(t, dateTime) == dateTime - t > kFreshnessMs

\* the freshness test written with >= : the bound itself is out of range
TimestampOutOfRangeInclusive(t, dateTime) ==
    (IF t - dateTime < 0 THEN dateTime - t ELSE t - dateTime) >= kFreshnessMs

\* Math.abs(Date.now() - dateInst.getTime()) > 300000
Abs(x) == IF x < 0 THEN -x ELSE x
TimestampOutOfRange(t, dateTime) == Abs(t - dateTime) > kFreshnessMs

\* the idempotent test that forgets HEAD
IdempotentGetOnly(method) == method = "GET"

\* req.method === "GET" || req.method === "HEAD"
Idempotent(method) == method = "GET" \/ method = "HEAD"

\* the catch block without its return: the 401 is sent and next() follows
CatchFallingThrough(rec, hint, e) ==
    IF e.kind = "AuthError"
    THEN [rec EXCEPT !.pc = "done", !.thrown = e,
              !.response =
                  [status |-> 401,
                   wwwAuthenticate |-> CONST_AUTHORIZATION_TYPE
                       \o " realm=\"Accessing to protected data\", charset=\"UTF-8\"",
                   body |-> [message |-> "Authorization failed.", hint |-> hint]],
              !.nextCalls = @ + 1, !.nextError = FALSE]
    ELSE [rec EXCEPT !.pc = "done", !.thrown = e,
              !.nextCalls = @ + 1, !.nextError = TRUE]

\* the catch block answering with the message of the AuthError
CatchLeakingCode(rec, hint, e) ==
    IF e.kind = "AuthError"
    THEN [rec EXCEPT !.pc = "done", !.thrown = e,
              !.response =
                  [status |-> 401,
                   wwwAuthenticate |-> CONST_AUTHORIZATION_TYPE
                       \o " realm=\"Accessing to protected data\", charset=\"UTF-8\"",
                   body |-> [message |->
                                IF e.code = 25 THEN "Invalid or duplicate nonce."
                                ELSE "Authorization failed.",
                             hint |-> hint]]]
    ELSE [rec EXCEPT !.pc = "done", !.thrown = e,
              !.nextCalls = @ + 1, !.nextError = TRUE]

\* the catch block (lines 503-518): an AuthError is answered with the 401,
\* anything else is handed to next(e)
Catch(rec, hint, e) ==
    IF e.kind = "AuthError"
    THEN [rec EXCEPT !.pc = "done", !.thrown = e,
              !.response =
                  [status |-> 401,
                   wwwAuthenticate |-> CONST_AUTHORIZATION_TYPE
                       \o " realm=\"Accessing to protected data\", charset=\"UTF-8\"",
                   body |-> [message |-> "Authorization failed.", hint |-> hint]]]
    ELSE [rec EXCEPT !.pc = "done", !.thrown = e,
              !.nextCalls = @ + 1, !.nextError = TRUE]

\* lines 486-502 with the failure of JSON.parse swallowed: json stays
\* undefined and the request goes on
ParseAndContinueLenient(rec, hint, v) ==
    [rec EXCEPT !.pc = "done",
         !.httpAuthentication =
             [attached |-> TRUE,
              merchant |-> v.authorizationCredentialCredential,
              jsonDefined |-> v.reqBody # "" /\ ~JsonParseThrows(v.reqBody),
              json |-> JsonParse(IF JsonParseThrows(v.reqBody) THEN "" ELSE v.reqBody),
              headers |-> v.headersRaw],
         !.nextCalls = @ + 1]

\* lines 486-502: parse the body, attach the context, call next()
ParseAndContinue(rec, hint, v) ==
    IF v.reqBody # "" /\ JsonParseThrows(v.reqBody)
    THEN Catch(rec, hint, AuthError(24))
    ELSE [rec EXCEPT !.pc = "done",
              !.httpAuthentication =
                  [attached |-> TRUE,
                   merchant |-> v.authorizationCredentialCredential,
                   jsonDefined |-> v.reqBody # "",
                   json |-> JsonParse(v.reqBody),
                   headers |-> v.headersRaw],
              !.nextCalls = @ + 1]

\* configCache.get(token) !== undefined
CacheHas(token) ==
    IF optImplementation = "Local"
    THEN LocalGet(dataData, token) # Undefined
    ELSE RemoteGet(redis, token, now) # Undefined

\* configCache.set(token, kConfigCacheElement).  The local backend cancels
\* the waiter, whose loop then waits again for this.interval().
CacheSet(token) ==
    IF optImplementation = "Local"
    THEN /\ dataData' = LocalSet(dataData, token, kConfigCacheElement, optTtl, now)
         /\ timerStart' = now
         /\ timerMs' = LocalInterval(dataData', now)
         /\ redis' = redis
    ELSE /\ redis' = RemoteSet(redis, token, kConfigCacheElement, optTtl, now)
         /\ UNCHANGED <<dataData, timerStart, timerMs>>

TokenOf(v) == Token(v.authorizationCredentialCredential, v.xFomopayNonce)

\* the requests whose call of nonceController.add has not returned
AddInFlight == {q \in ReqIds : reqs[q].pc \in {"nonceGet", "nonceSet"}}

\* requests with the same credential, nonce, date header and method
SameRequest(va, vb) ==
    /\ va.kind = "ok" /\ vb.kind = "ok"
    /\ va.authorizationCredentialCredential = vb.authorizationCredentialCredential
    /\ va.xFomopayNonce = vb.xFomopayNonce
    /\ va.dateTime = vb.dateTime
    /\ va.method = vb.method

\* the request went through: context attached, next() called without error
Accepted(rec) ==
    rec.pc = "done" /\ rec.thrown.kind = "none" /\ rec.httpAuthentication.attached

(***************************************************************************)
(* Actions.                                                                *)
(***************************************************************************)
Init ==
    /\ now = 0
    /\ optImplementation \in {"Local", "Remote"}
    /\ optTtl \in TtlChoices
    /\ dataData = EmptyMap
    /\ timerStart = 0
    /\ timerMs = LocalInterval(EmptyMap, 0)
    /\ redis = EmptyMap
    /\ reqs = [r \in ReqIds |-> IdleRequest]
    /\ call = NoCall
    /\ waiter = WaiterAwaiting
    /\ OthersInit

\* The server hands request r to the middleware, which runs to its first
\* await (merchantConfig.get) or to the catch block.
Receive(r, req) ==
    /\ reqs[r].pc = "idle"
    /\ \A q \in ReqIds : q < r => reqs[q].pc # "idle"
    /\ \E v \in {Verified[req]} :
        LET rec == [reqs[r] EXCEPT !.input = req,
                        !.replayed = \E q \in ReqIds :
                            Accepted(reqs[q]) /\ SameRequest(Verified[reqs[q].input], v)]
        IN  reqs' = [reqs EXCEPT ![r] =
                IF v.kind = "ok" THEN [rec EXCEPT !.pc = "merchant"]
                ELSE Catch(rec, r, v)]
    /\ UNCHANGED <<others, waiter, now, optImplementation, optTtl, dataData, timerStart, timerMs, redis, call>>

\* a middleware that stores the nonce as soon as the tenant has answered,
\* before it looks at the key, the signature and the date
MerchantResolvedStoringFirst(r, lookupThrows) ==
    /\ reqs[r].pc = "merchant"
    /\ \E v \in {Verified[reqs[r].input]} :
       LET merchant == v.authorizationCredentialCredential
           publicKey == MerchantPublicKey(merchant)
           reject(e) == reqs' = [reqs EXCEPT ![r] = Catch(reqs[r], r, e)]
       IN  /\ CacheSet(TokenOf(v))
           /\ IF lookupThrows THEN reject(OtherError)
              ELSE IF ~MerchantRegistered(merchant) THEN reject(AuthError(23))
              ELSE IF publicKey = Undefined THEN reject(AuthError(23))
              ELSE IF VerifyThrows(publicKey) THEN reject(OtherError)
              ELSE IF ~VerifySignature(publicKey, v.stringToSign,
                                       v.authorizationCredentialSignature)
                   THEN reject(AuthError(23))
              ELSE IF TimestampOutOfRange(now, v.dateTime) THEN reject(AuthError(25))
              ELSE reqs' = [reqs EXCEPT ![r] =
                       [reqs[r] EXCEPT !.pc = "nonceSet", !.addCalls = @ + 1,
                            !.overlap = AddInFlight \ {r}]]
    /\ UNCHANGED <<others, waiter, now, optImplementation, optTtl, call>>

\* a middleware that compares the date with the clock before it verifies the
\* signature
MerchantResolvedFreshnessFirst(r, lookupThrows) ==
    /\ reqs[r].pc = "merchant"
    /\ \E v \in {Verified[reqs[r].input]} :
       LET rec == reqs[r]
           merchant == v.authorizationCredentialCredential
           publicKey == MerchantPublicKey(merchant)
           token == Token(merchant, v.xFomopayNonce)
           reject(e) ==
               /\ reqs' = [reqs EXCEPT ![r] = Catch(rec, r, e)]
               /\ UNCHANGED <<dataData, timerStart, timerMs, redis>>
       IN  IF lookupThrows THEN reject(OtherError)
           ELSE IF ~MerchantRegistered(merchant) THEN reject(AuthError(23))
           ELSE IF publicKey = Undefined THEN reject(AuthError(23))
           ELSE IF TimestampOutOfRange(now, v.dateTime) THEN reject(AuthError(25))
           ELSE IF VerifyThrows(publicKey) THEN reject(OtherError)
           ELSE IF ~VerifySignature(publicKey, v.stringToSign,
                                    v.authorizationCredentialSignature)
                THEN reject(AuthError(23))
           ELSE IF Idempotent(v.method)
                THEN /\ CacheSet(token)
                     /\ reqs' = [reqs EXCEPT ![r] =
                            [rec EXCEPT !.pc = "nonceSet", !.addCalls = @ + 1,
                                 !.overlap = AddInFlight \ {r}]]
                ELSE /\ reqs' = [reqs EXCEPT ![r] =
                            [rec EXCEPT !.pc = "nonceGet", !.addCalls = @ + 1,
                                 !.exists = CacheHas(token),
                                 !.overlap = AddInFlight \ {r}]]
                     /\ UNCHANGED <<dataData, timerStart, timerMs, redis>>
    /\ UNCHANGED <<others, waiter, now, optImplementation, optTtl, call>>

\* merchantConfig.get returns or throws; lines 419-476 run to the first
\* await inside nonceController.add.
MerchantResolved(r, lookupThrows) ==
    /\ reqs[r].pc = "merchant"
    /\ \E v \in {Verified[reqs[r].input]} :
       LET rec == reqs[r]
           merchant == v.authorizationCredentialCredential
           publicKey == MerchantPublicKey(merchant)
           token == Token(merchant, v.xFomopayNonce)
           reject(e) ==
               /\ reqs' = [reqs EXCEPT ![r] = Catch(rec, r, e)]
               /\ UNCHANGED <<dataData, timerStart, timerMs, redis>>
       IN  IF lookupThrows THEN reject(OtherError)
           ELSE IF ~MerchantRegistered(merchant) THEN reject(AuthError(23))
           ELSE IF publicKey = Undefined THEN reject(AuthError(23))
           ELSE IF VerifyThrows(publicKey) THEN reject(OtherError)
           ELSE IF ~VerifySignature(publicKey, v.stringToSign,
                                    v.authorizationCredentialSignature)
                THEN reject(AuthError(23))
           ELSE IF TimestampOutOfRange(now, v.dateTime) THEN reject(AuthError(25))
           ELSE IF Idempotent(v.method)
                THEN /\ CacheSet(token)
                     /\ reqs' = [reqs EXCEPT ![r] =
                            [rec EXCEPT !.pc = "nonceSet", !.addCalls = @ + 1,
                                 !.overlap = AddInFlight \ {r}]]
                ELSE /\ reqs' = [reqs EXCEPT ![r] =
                            [rec EXCEPT !.pc = "nonceGet", !.addCalls = @ + 1,
                                 !.exists = CacheHas(token),
                                 !.overlap = AddInFlight \ {r}]]
                     /\ UNCHANGED <<dataData, timerStart, timerMs, redis>>
    /\ UNCHANGED <<others, waiter, now, optImplementation, optTtl, call>>

\* nonceController.add storing the key before it looks at exists: a key
\* that is present is written again, and false returned
NonceLookedUpRefreshing(r) ==
    /\ reqs[r].pc = "nonceGet"
    /\ CacheSet(TokenOf(Verified[reqs[r].input]))
    /\ IF reqs[r].exists
       THEN reqs' = [reqs EXCEPT ![r] =
                Catch([reqs[r] EXCEPT !.addResult = "false"], r, AuthError(25))]
       ELSE reqs' = [reqs EXCEPT ![r].pc = "nonceSet"]
    /\ UNCHANGED <<others, waiter, now, optImplementation, optTtl, call>>

\* nonceController.add resumes after await configCache.get(token)
NonceLookedUp(r) ==
    /\ reqs[r].pc = "nonceGet"
    /\ IF reqs[r].exists
       THEN /\ reqs' = [reqs EXCEPT ![r] =
                   Catch([reqs[r] EXCEPT !.addResult = "false"], r, AuthError(25))]
            /\ UNCHANGED <<dataData, timerStart, timerMs, redis>>
       ELSE /\ CacheSet(TokenOf(Verified[reqs[r].input]))
            /\ reqs' = [reqs EXCEPT ![r].pc = "nonceSet"]
    /\ UNCHANGED <<others, waiter, now, optImplementation, optTtl, call>>

\* a middleware that takes the key out of the cache again when the body
\* does not parse
NonceStoredRollingBack(r) ==
    /\ reqs[r].pc = "nonceSet"
    /\ \E v \in {Verified[reqs[r].input]} :
        /\ reqs' = [reqs EXCEPT ![r] =
               ParseAndContinue([reqs[r] EXCEPT !.addResult = "true"], r, v)]
        /\ IF v.reqBody # "" /\ JsonParseThrows(v.reqBody)
           THEN /\ dataData' = [k \in DOMAIN dataData \ {TokenOf(v)} |-> dataData[k]]
                /\ redis' = [k \in DOMAIN redis \ {GenerateKey(TokenOf(v))} |-> redis[k]]
           ELSE UNCHANGED <<dataData, redis>>
    /\ UNCHANGED <<others, waiter, now, optImplementation, optTtl, timerStart, timerMs, call>>

\* nonceController.add resumes after await configCache.set(token, null) and
\* returns true; the middleware runs to its end
NonceStored(r) ==
    /\ reqs[r].pc = "nonceSet"
    /\ reqs' = [reqs EXCEPT ![r] =
           ParseAndContinue([reqs[r] EXCEPT !.addResult = "true"], r,
                            Verified[reqs[r].input])]
    /\ UNCHANGED <<others, waiter, now, optImplementation, optTtl, dataData, timerStart, timerMs, redis, call>>

\* time passes
Tick ==
    /\ now < MaxTicks * kFreshnessMs
    /\ now' = now + kFreshnessMs
    /\ UNCHANGED <<others, waiter, optImplementation, optTtl, dataData, timerStart, timerMs,
                   redis, reqs, call>>

\* the waiter's timeout fires: purge(), then the loop waits for interval()
TimerFired ==
    /\ optImplementation = "Local"
    /\ now - timerStart >= timerMs
    /\ dataData' = LocalPurge(dataData, now)
    /\ timerStart' = now
    /\ timerMs' = LocalInterval(dataData', now)
    /\ UNCHANGED <<others, waiter, now, optImplementation, optTtl, redis, reqs, call>>

Next ==
    \/ \E r \in ReqIds, req \in Requests : Receive(r, req)
    \/ \E r \in ReqIds, lookupThrows \in BOOLEAN : MerchantResolved(r, lookupThrows)
    \/ \E r \in ReqIds : NonceLookedUp(r)
    \/ \E r \in ReqIds : NonceStored(r)
    \/ Tick
    \/ TimerFired

Spec == Init /\ [][Next]_vars

(***************************************************************************)
(* The claims.                                                             *)
(***************************************************************************)
\* what the header checks made of the request in slot r
V(r) == Verified[reqs[r].input]

Received(r) == reqs[r].pc # "idle"

\* a validly signed request that is not GET or HEAD
NonIdempotent(r) == Received(r) /\ V(r).kind = "ok" /\ V(r).method \notin {"GET", "HEAD"}

\* C1: a non-idempotent request (same tenant, nonce, declared timestamp and
\* verb) is never accepted twice, at whatever times the two submissions are
\* verified.
C1_NeverAcceptedTwice ==
    \A a, b \in ReqIds :
        (a # b /\ NonIdempotent(a) /\ NonIdempotent(b) /\ SameRequest(V(a), V(b)))
            => ~(Accepted(reqs[a]) /\ Accepted(reqs[b]))

\* C2: of two calls add(tenant, nonce, false) for the same tenant and nonce
\* that are in flight at the same time, at most one returns true.
C2_AtMostOneConcurrentAddReturnsTrue ==
    \A a, b \in ReqIds :
        (a # b /\ NonIdempotent(a) /\ NonIdempotent(b) /\ b \in reqs[a].overlap
              /\ TokenOf(V(a)) = TokenOf(V(b)))
            => ~(reqs[a].addResult = "true" /\ reqs[b].addResult = "true")

\* C3: get(k) never returns the value of an entry whose expiration instant
\* has passed (exp <= now), purged or not.
C3_GetNeverReturnsExpired ==
    \A k \in DOMAIN dataData :
        dataData[k].exp <= now => LocalGet(dataData, k) = Undefined

Stored(token) == CacheHas(token)

SignatureValid(r) ==
    /\ Received(r) /\ V(r).kind = "ok"
    /\ MerchantRegistered(V(r).authorizationCredentialCredential)
    /\ MerchantPublicKey(V(r).authorizationCredentialCredential) \in {"PUB-1", "PUB-2"}
    /\ V(r).authorizationCredentialSignature =
           [key |-> PrivateKeyOf(MerchantPublicKey(V(r).authorizationCredentialCredential)),
            msg |-> V(r).stringToSign]

\* C6 as claimed: add is called at most once for a request, and only after
\* every other check has passed: a request rejected for another reason than
\* replay has not stored its nonce.
C6_RejectedStoresNoNonce ==
    \A r \in ReqIds :
        /\ reqs[r].addCalls <= 1
        /\ (reqs[r].pc = "done" /\ reqs[r].thrown.kind # "none"
              /\ reqs[r].addResult # "false")
             => reqs[r].addCalls = 0

\* next() was called for the request in slot r, without an error
ContinuedDownstream(r) == reqs[r].nextCalls >= 1 /\ ~reqs[r].nextError

\* C7: when a check of a request fails, next() is never called without an
\* error for it and no httpAuthentication context is attached to it.
C7_NoDownstreamOnFailure ==
    \A r \in ReqIds :
        /\ reqs[r].thrown.kind # "none"
             => /\ ~ContinuedDownstream(r)
                /\ reqs[r].httpAuthentication = NoAuthentication
        /\ reqs[r].pc # "done"
             => /\ reqs[r].nextCalls = 0
                /\ reqs[r].httpAuthentication = NoAuthentication

\* a request that failed at the last step (its body is no JSON) next to one
\* that failed with another exception than an AuthError
C7_Witness ==
    \E a, b \in ReqIds :
        /\ reqs[a].pc = "done" /\ reqs[a].thrown = AuthError(24)
        /\ reqs[b].pc = "done" /\ reqs[b].thrown = OtherError

\* the request in slot r was rejected
Rejected(r) == reqs[r].pc = "done" /\ reqs[r].thrown.kind # "none"

\* what the client sees of a response, the correlation hint left out
ClientVisible(response) == [response EXCEPT !.body.hint = 0]

\* C8 as claimed: every rejection, whichever step failed (the tenant key
\* lookup, URL parsing, the raw-header shape and the signature primitive
\* included), is answered with the same 401.
C8_EveryRejectionIs401 ==
    \A r \in ReqIds :
        Rejected(r) => reqs[r].response.status = 401

\* C8 as amended: every rejection by an AuthError is answered with the same
\* 401, WWW-Authenticate header and body {message, hint}, the same for any
\* two such requests but for the hint, and next() is not called; a failure
\* that raises another exception is not answered by the verifier, it is
\* handed to next(e).
C8_AuthErrorsAnsweredAlike ==
    /\ \A a, b \in ReqIds :
          (Rejected(a) /\ Rejected(b)
             /\ reqs[a].thrown.kind = "AuthError" /\ reqs[b].thrown.kind = "AuthError")
            => ClientVisible(reqs[a].response) = ClientVisible(reqs[b].response)
    /\ \A r \in ReqIds :
          /\ (Rejected(r) /\ reqs[r].thrown.kind = "AuthError")
               => /\ reqs[r].response.status = 401
                  /\ reqs[r].response.wwwAuthenticate # ""
                  /\ reqs[r].response.body.hint = r
                  /\ reqs[r].nextCalls = 0
          /\ (Rejected(r) /\ reqs[r].thrown.kind = "Error")
               => /\ reqs[r].response = NoResponse
                  /\ reqs[r].nextCalls = 1 /\ reqs[r].nextError

\* two requests rejected at different steps: one for its nonce or timestamp
\* (0x0019), one at another check
C8_Witness ==
    \E a, b \in ReqIds :
        /\ Rejected(a) /\ Rejected(b)
        /\ reqs[a].thrown = AuthError(25)
        /\ reqs[b].thrown.kind = "AuthError" /\ reqs[b].thrown.code # 25

\* C6 as amended: add is called at most once for a request, after the header
\* checks, the tenant lookup, the signature check and the freshness check
\* have passed, and before the body is parsed: a rejected request has stored
\* its nonce only when it was rejected for its body (0x0018).
C6_AddOnceBeforeBodyParse ==
    /\ [](\A r \in ReqIds :
            /\ reqs[r].addCalls <= 1
            /\ reqs[r].addCalls = 1 => SignatureValid(r)
            /\ (Rejected(r) /\ reqs[r].addCalls = 1 /\ reqs[r].addResult # "false")
                 => /\ reqs[r].thrown = AuthError(24)
                    /\ JsonParseThrows(V(r).reqBody)
            /\ (Rejected(r) /\ reqs[r].thrown.code \notin {24, 25})
                 => reqs[r].addCalls = 0)
    /\ [][\A r \in ReqIds :
            reqs'[r].addCalls # reqs[r].addCalls
              => /\ reqs[r].pc = "merchant"
                 /\ now - V(r).dateTime <= kFreshnessMs
                 /\ V(r).dateTime - now <= kFreshnessMs]_vars

\* a request rejected for its body, its nonce stored
C6_Witness ==
    \E r \in ReqIds :
        /\ Rejected(r) /\ reqs[r].thrown = AuthError(24)
        /\ reqs[r].addCalls = 1 /\ reqs[r].addResult = "true"
        /\ CacheHas(TokenOf(V(r)))

\* every check of the request in slot r has passed
EveryCheckPassed(r) ==
    /\ SignatureValid(r)
    /\ reqs[r].addCalls = 1 /\ reqs[r].addResult = "true"
    /\ ~(V(r).reqBody # "" /\ JsonParseThrows(V(r).reqBody))

\* C9: when every check of a request has passed, {merchant, json, headers} is
\* attached to it, next() is called once and without an error, and no
\* response is sent; next() is called without an error in no other outcome.
C9_SuccessAttachesAndContinues ==
    \A r \in ReqIds :
        /\ (reqs[r].pc = "done" /\ EveryCheckPassed(r))
             => /\ reqs[r].thrown.kind = "none"
                /\ reqs[r].httpAuthentication =
                       [attached |-> TRUE,
                        merchant |-> V(r).authorizationCredentialCredential,
                        jsonDefined |-> V(r).reqBody # "",
                        json |-> JsonParse(V(r).reqBody),
                        headers |-> V(r).headersRaw]
                /\ "content-type" \in DOMAIN reqs[r].httpAuthentication.headers
                     => reqs[r].httpAuthentication.headers["content-type"]
                            = "application/json"
                /\ reqs[r].nextCalls = 1 /\ ~reqs[r].nextError
                /\ reqs[r].response = NoResponse
        /\ ContinuedDownstream(r)
             => /\ reqs[r].pc = "done"
                /\ EveryCheckPassed(r)

\* an accepted request with a body and one with none
C9_Witness ==
    \E a, b \in ReqIds :
        /\ ContinuedDownstream(a) /\ reqs[a].httpAuthentication.jsonDefined
        /\ ContinuedDownstream(b) /\ ~reqs[b].httpAuthentication.jsonDefined

\* C10: a validly signed request whose date is more than 300000 ms from
\* Date.now() when the freshness check runs is rejected, add is not called
\* and the cache is not written; at 300000 ms or less it is not rejected by
\* the freshness check and goes on to add.
C10_FreshnessWindow ==
    [][\A r \in ReqIds :
          (reqs[r].pc = "merchant" /\ reqs'[r].pc # "merchant" /\ SignatureValid(r))
            => IF now - V(r).dateTime > kFreshnessMs \/ V(r).dateTime - now > kFreshnessMs
               THEN /\ reqs'[r].pc = "done"
                    /\ reqs'[r].thrown.kind # "none"
                    /\ reqs'[r].response.status = 401 \/ reqs'[r].nextError
                    /\ reqs'[r].addCalls = 0
                    /\ dataData' = dataData /\ redis' = redis
               ELSE \/ reqs'[r].thrown = OtherError
                    \/ /\ reqs'[r].thrown.kind = "none"
                       /\ reqs'[r].addCalls = 1
                       /\ reqs'[r].pc \in {"nonceGet", "nonceSet"}]_vars

\* at Date.now() = 0 a request dated 300000 was accepted and one dated 300001
\* was rejected before add
C10_Witness ==
    /\ now = 0
    /\ \E a, b \in ReqIds :
          /\ SignatureValid(a) /\ V(a).dateTime = kFreshnessMs
          /\ ContinuedDownstream(a)
          /\ SignatureValid(b) /\ V(b).dateTime = kFreshnessMs + 1
          /\ Rejected(b) /\ reqs[b].thrown = AuthError(25) /\ reqs[b].addCalls = 0

\* the request in slot r, as it was sent
Input(r) == RequestTable[reqs[r].input]

\* the SignedHeaders field of the credentials, as a set
DeclaredSigned(req) == SeqToSet(req.authorization.SignedHeaders)

\* the names of the headers the request carries, lower-cased
SentHeaders(req) ==
    {ToLowerCase(req.rawHeaders[i][1]) : i \in 1..Len(req.rawHeaders)}

\* C11 (as stated): a request whose declared signed-header set lacks host or
\* content-type never reaches the downstream handler, whether or not it
\* carries that header.
C11_UndeclaredCompulsoryRejected ==
    \A r \in ReqIds :
        (Received(r) /\ {"host", "content-type"} \ DeclaredSigned(Input(r)) # {})
            => ~ContinuedDownstream(r)

\* C11 (amended): a request that carries a host or content-type header which
\* its declared signed-header set lacks is rejected by the header scan,
\* before the tenant is looked up and before the signature is looked at:
\* the replay guard is not called and the downstream handler is not reached,
\* whether or not the signature is valid for the headers that are declared.
C11_SentCompulsoryMustBeSigned ==
    \A r \in ReqIds :
        (Received(r)
         /\ ({"host", "content-type"} \cap SentHeaders(Input(r)))
                \ DeclaredSigned(Input(r)) # {})
            => /\ Rejected(r)
               /\ reqs[r].addCalls = 0
               /\ ~ContinuedDownstream(r)

\* a request signed for exactly the headers it declares, sent with a Host
\* header it does not declare, has been rejected with 0x0010, and so has one
\* sent with an undeclared Content-Type
C11_Witness ==
    /\ \E r \in ReqIds :
        /\ reqs[r].input = "host sent, rest signed"
        /\ Rejected(r) /\ reqs[r].thrown = AuthError(16)
    /\ \E r \in ReqIds :
        /\ reqs[r].input = "content-type sent, rest signed"
        /\ Rejected(r) /\ reqs[r].thrown = AuthError(16)

\* services and nonces add can be called with; "a/b" with "c" and "a" with
\* "b/c" are the pairs that a plain join with "/" would confuse
SampleServices == {"merchant-1", "merchant-2", "a", "a/b"}
SampleNonces == {Nonce1, Nonce2, "c", "b/c"}

\* different pairs have different keys
TokenInjective ==
    \A s1 \in SampleServices, s2 \in SampleServices,
       n1 \in SampleNonces, n2 \in SampleNonces :
        (\/ Token(s1, n1) = Token(s2, n2)
         \/ GenerateKey(Token(s1, n1)) = GenerateKey(Token(s2, n2)))
            => (s1 = s2 /\ n1 = n2)

\* the call of add made for request q has written its key
AddStored(q) == reqs[q].pc = "nonceSet" \/ reqs[q].addResult = "true"

\* requests r and q name the same tenant and the same nonce
SamePair(r, q) ==
    /\ V(r).authorizationCredentialCredential = V(q).authorizationCredentialCredential
    /\ V(r).xFomopayNonce = V(q).xFomopayNonce

\* C12: replay decisions for distinct (tenant, nonce) pairs are independent.
\* The key of a pair is injective, in the local cache and behind the prefix
\* of the shared cache; and add finds the key of a non-idempotent request
\* present, or returns false, only if another request with the same tenant
\* and the same nonce has stored it: a request that differs in the nonce or
\* in the tenant from everything stored so far gets true.
C12_PairsIndependent ==
    /\ TokenInjective
    /\ \A r \in ReqIds :
        (NonIdempotent(r) /\ (reqs[r].exists \/ reqs[r].addResult = "false"))
            => \E q \in ReqIds \ {r} :
                /\ Received(q) /\ V(q).kind = "ok"
                /\ SamePair(r, q)
                /\ AddStored(q)

\* after POST m1 n1 was accepted, the same request with the other nonce, or
\* of the other tenant, arrived, found its key absent and was accepted
C12_Witness ==
    /\ reqs[1].input = "POST m1 n1" /\ Accepted(reqs[1])
    /\ reqs[2].input \in {"POST m1 n2", "POST m2 n1"}
    /\ reqs[2].overlap = {}
    /\ ~reqs[2].exists /\ reqs[2].addResult = "true"
    /\ Accepted(reqs[2])

\* req.body when it is a Buffer, else the empty buffer (lines 301-303)
RawBody(req) == IF req.bodyIsBuffer THEN req.body ELSE ""

\* C13: a request whose x-fomopay-content-sha256 header is not the
\* lowercase-hex SHA-256 of its raw body (of the empty buffer when it has no
\* body) is rejected by the header checks: the tenant is not looked up, the
\* replay guard is not called, the downstream handler is not reached.
C13_DigestMustMatchBody ==
    \A r \in ReqIds :
        (Received(r)
         /\ ReqHeader(Input(r), "x-fomopay-content-sha256") # Sha256Hex(RawBody(Input(r))))
            => /\ Rejected(r)
               /\ reqs[r].addCalls = 0
               /\ ~ContinuedDownstream(r)

\* the signed request with one byte of its body changed and its headers
\* untouched has been rejected with 0x0016, and a request without a body
\* buffer that declares the digest of the empty buffer has been accepted
C13_Witness ==
    /\ \E r \in ReqIds :
        /\ reqs[r].input = "body replaced"
        /\ Input(r).rawHeaders = BaseRequest.rawHeaders
        /\ Input(r).authorization = BaseRequest.authorization
        /\ Rejected(r) /\ reqs[r].thrown = AuthError(22)
    /\ \E r \in ReqIds :
        /\ reqs[r].input = "POST m1 n2 body no buffer"
        /\ Accepted(reqs[r])

\* the requests whose SignedHeaders field is not its own names in sorted order
DeclaredOutOfOrder ==
    {name \in Requests :
        RequestTable[name].authorization.SignedHeaders
            # SortByLocale(DeclaredSigned(RequestTable[name]))}

\* C14: a request whose SignedHeaders field does not list its names in the
\* order the verifier recomputes (the collected names sorted by name) is
\* rejected by the header checks, although the canonical request, and so
\* the signature, does not depend on the declared order.
C14_DeclaredOrderMustBeSorted ==
    \A r \in ReqIds :
        (Received(r) /\ reqs[r].input \in DeclaredOutOfOrder)
            => /\ Rejected(r)
               /\ reqs[r].addCalls = 0
               /\ ~ContinuedDownstream(r)

\* the signed request with host and content-type swapped in SignedHeaders,
\* everything else as signed, has been rejected with 0x0012
C14_Witness ==
    \E r \in ReqIds :
        /\ reqs[r].input = "signed headers unsorted"
        /\ DeclaredSigned(Input(r)) = DeclaredSigned(BaseRequest)
        /\ Input(r).authorization.SignedHeaders # BaseRequest.authorization.SignedHeaders
        /\ Input(r).rawHeaders = BaseRequest.rawHeaders
        /\ Rejected(r) /\ reqs[r].thrown = AuthError(18)

(***************************************************************************)
(* The cache used directly.  A caller makes set, get and del calls one at  *)
(* a time, awaiting each; the clock and the purge waiter run in between.   *)
(* With the shared backend a command may fail at the store (ioError).      *)
(***************************************************************************)
\* the number of calls the caller makes
MaxCalls == 3

CacheKeys == {"k1", "k2"}

\* a value v8.serialize throws on (a function)
kUnserializable == "function"

CacheValues == {"v1", "v2", Undefined, kUnserializable}

\* options.ttl of the caches the caller builds, in seconds
CacheTtlChoices == {0, 300}

\* the options argument of set: left out, a relative ttl, an absolute
\* expiration (seconds since the epoch)
NoOptions == [given |-> FALSE, ttl |-> 0, absolute |-> FALSE]
SetOptions ==
    {NoOptions,
     [given |-> TRUE, ttl |-> 300, absolute |-> FALSE],
     [given |-> TRUE, ttl |-> 0, absolute |-> FALSE],
     [given |-> TRUE, ttl |-> 600, absolute |-> TRUE]}

\* a delete that removes nothing
MapDeleteNothing(m, k) == m

\* delete m[k]
MapDelete(m, k) == [x \in DOMAIN m \ {k} |-> m[x]]

\* ConfigCacheLocal.set: exp, in ms since the epoch
LocalExp(ttl, options, t) ==
    IF ~options.given THEN ttl * 1000 + t
    ELSE IF options.absolute THEN options.ttl * 1000
    ELSE options.ttl * 1000 + t

\* ConfigCacheRemote.set: exp, the seconds passed to SETEX
RemoteExp(ttl, options, t) ==
    IF ~options.given THEN ttl
    ELSE IF options.absolute THEN options.ttl - t \div 1000
    ELSE options.ttl

\* v8.serialize(value) throws
V8SerializeThrows(value) == value = kUnserializable

\* a set that takes any value
SetRejectsNothing(value) == FALSE

\* value === undefined, on which set throws
SetRejects(value) == value = Undefined

\* a catch block of get that throws the error again
RemoteGetRethrow == [threw |-> TRUE, result |-> Undefined]

\* the catch block of ConfigCacheRemote.get: warn, return undefined
RemoteGetCatch == [threw |-> FALSE, result |-> Undefined]

\* what get(key) would return now, the store answering
GetValue(key) ==
    IF optImplementation = "Local" THEN LocalGet(dataData, key)
    ELSE RemoteGet(redis, key, now)

\* await cache.set(key, value, options)
ConfigCacheSet(key, value, options, ioError) ==
    /\ call.seq < MaxCalls
    /\ ioError => optImplementation = "Remote"
    /\ IF SetRejects(value)
       THEN /\ UNCHANGED <<dataData, timerStart, timerMs, redis>>
            /\ call' = [call EXCEPT !.seq = @ + 1, !.op = "set", !.key = key,
                            !.value = value, !.options = options,
                            !.ioError = FALSE, !.threw = TRUE,
                            !.result = Undefined]
       ELSE /\ IF optImplementation = "Local"
               THEN /\ dataData' = MapPut(dataData, key,
                           [exp |-> LocalExp(optTtl, options, now), value |-> value])
                    /\ timerStart' = now
                    /\ timerMs' = LocalInterval(dataData', now)
                    /\ redis' = redis
               ELSE /\ redis' =
                        IF \/ RemoteExp(optTtl, options, now) <= 0
                           \/ V8SerializeThrows(value)
                           \/ ioError
                        THEN redis
                        ELSE MapPut(redis, GenerateKey(key),
                                 [exp |-> now + RemoteExp(optTtl, options, now) * 1000,
                                  value |-> V8Serialize(value)])
                    /\ UNCHANGED <<dataData, timerStart, timerMs>>
            /\ call' = [call EXCEPT !.seq = @ + 1, !.op = "set", !.key = key,
                            !.value = value, !.options = options,
                            !.ioError = ioError, !.threw = FALSE,
                            !.result = Undefined,
                            !.deleted = @ \ {key}, !.executed = @ \ {key}]
    /\ UNCHANGED <<others, waiter, now, optImplementation, optTtl, reqs>>

\* await cache.get(key)
ConfigCacheGet(key, ioError) ==
    /\ call.seq < MaxCalls
    /\ ioError => optImplementation = "Remote"
    /\ \E outcome \in {IF ioError THEN RemoteGetCatch
                       ELSE [threw |-> FALSE, result |-> GetValue(key)]} :
        call' = [call EXCEPT !.seq = @ + 1, !.op = "get", !.key = key,
                     !.value = "", !.options = NoOptions, !.ioError = ioError,
                     !.threw = outcome.threw, !.result = outcome.result]
    /\ UNCHANGED <<others, waiter, now, optImplementation, optTtl, dataData, timerStart, timerMs,
                   redis, reqs>>

\* await cache.del(key)
ConfigCacheDel(key, ioError) ==
    /\ call.seq < MaxCalls
    /\ ioError => optImplementation = "Remote"
    /\ IF optImplementation = "Local"
       THEN dataData' = MapDelete(dataData, key) /\ redis' = redis
       ELSE /\ redis' = IF ioError THEN redis ELSE MapDelete(redis, GenerateKey(key))
            /\ dataData' = dataData
    /\ call' = [call EXCEPT !.seq = @ + 1, !.op = "del", !.key = key,
                    !.value = "", !.options = NoOptions, !.ioError = ioError, !.threw = FALSE,
                    !.result = Undefined,
                    !.deleted = @ \cup {key},
                    !.executed = IF ioError THEN @ ELSE @ \cup {key}]
    /\ UNCHANGED <<others, waiter, now, optImplementation, optTtl, timerStart, timerMs, reqs>>

CacheInit ==
    /\ now = 0
    /\ optImplementation \in {"Local", "Remote"}
    /\ optTtl \in CacheTtlChoices
    /\ dataData = EmptyMap
    /\ timerStart = 0
    /\ timerMs = LocalInterval(EmptyMap, 0)
    /\ redis = EmptyMap
    /\ reqs = [r \in ReqIds |-> IdleRequest]
    /\ call = NoCall
    /\ waiter = WaiterAwaiting
    /\ OthersInit

CacheNext ==
    \/ \E key \in CacheKeys, value \in CacheValues, options \in SetOptions,
          ioError \in BOOLEAN : ConfigCacheSet(key, value, options, ioError)
    \/ \E key \in CacheKeys, ioError \in BOOLEAN : ConfigCacheGet(key, ioError)
    \/ \E key \in CacheKeys, ioError \in BOOLEAN : ConfigCacheDel(key, ioError)
    \/ Tick
    \/ TimerFired

CacheSpec == CacheInit /\ [][CacheNext]_vars

\* the step is a call of op that returned or threw
Called(op) == call'.seq = call.seq + 1 /\ call'.op = op

C16_DelThenGetAbsent ==
    \A k \in call.deleted : GetValue(k) = Undefined

\* C16 (amended): on the local backend, and on the shared backend when the
\* store executed the DEL, get(k) returns absent from the return of del(k)
\* until the next set(k, .), whatever was done before and however much time
\* passes; a del whose command fails at the store returns normally and
\* leaves the store as it was.
C16_ExecutedDelThenGetAbsent ==
    /\ [](\A k \in call.executed : GetValue(k) = Undefined)
    /\ [][Called("del") =>
            /\ ~call'.threw
            /\ call'.ioError => (redis' = redis /\ dataData' = dataData)
            /\ ~call'.ioError => GetValue(call.key)' = Undefined]_vars
    /\ [][(Called("get") /\ call'.key \in call.executed)
            => call'.result = Undefined]_vars

\* on the shared backend the store has executed del(k1), nothing is left in
\* it, and the get(k1) that followed, the third call, returned absent
C16_Witness ==
    /\ optImplementation = "Remote"
    /\ call.seq = 3 /\ call.op = "get" /\ call.key = "k1"
    /\ "k1" \in call.executed
    /\ call.result = Undefined
    /\ now = 0
    /\ optTtl = 300
    /\ redis = EmptyMap

\* C17: set(k, undefined) throws and leaves the cache as it was, on both
\* backends: no entry is created or overwritten (dataData and the store are
\* unchanged, so an entry of k keeps its value and its expiration) and the
\* purge waiter is not cancelled and restarted.
C17_SetUndefinedRejected ==
    [][(Called("set") /\ call'.value = Undefined) =>
            /\ call'.threw
            /\ dataData' = dataData
            /\ redis' = redis
            /\ timerStart' = timerStart /\ timerMs' = timerMs]_vars

\* on the local backend set(k, undefined) has thrown while an entry of k was
\* cached and the waiter had been sleeping since an earlier instant
C17_Witness ==
    /\ optImplementation = "Local"
    /\ call.op = "set" /\ call.value = Undefined /\ call.threw
    /\ call.key \in DOMAIN dataData
    /\ dataData[call.key].value = "v1"
    /\ timerStart < now

\* C18: on the shared backend a command that fails at the store during get,
\* set (of a value that is not undefined) or del is not propagated: the call
\* returns normally, and get returns absent.
C18_StoreFailureSwallowed ==
    [][(call'.seq = call.seq + 1 /\ call'.ioError) =>
            /\ optImplementation = "Remote"
            /\ call'.op \in {"get", "set", "del"}
            /\ ~call'.threw
            /\ call'.result = Undefined]_vars

\* the GET of a key the store holds has failed, and get returned absent
\* without throwing
C18_Witness ==
    /\ optImplementation = "Remote"
    /\ call.op = "get" /\ call.ioError
    /\ ~call.threw /\ call.result = Undefined
    /\ RemoteGet(redis, call.key, now) = "v1"

(***************************************************************************)
(* The verifier on the shared backend with a store that may fail: the GET  *)
(* or the SETEX that nonceController.add sends does not come back, and     *)
(* ConfigCacheRemote answers undefined or returns.                         *)
(***************************************************************************)
\* lines 419-461 throw nothing: the merchant has a usable key, the
\* signature verifies and the timestamp is within range
ChecksPassed(v, t) ==
    /\ MerchantRegistered(v.authorizationCredentialCredential)
    /\ MerchantPublicKey(v.authorizationCredentialCredential) # Undefined
    /\ ~VerifyThrows(MerchantPublicKey(v.authorizationCredentialCredential))
    /\ VerifySignature(MerchantPublicKey(v.authorizationCredentialCredential),
                       v.stringToSign, v.authorizationCredentialSignature)
    /\ ~TimestampOutOfRange(t, v.dateTime)

\* a lookup that counts the key as found whatever the cache returned
ExistsAlways(value) == TRUE

\* (await configCache.get(token)) !== undefined
Exists(value) == value # Undefined

\* merchantConfig.get returns, the checks pass, add is called for a request
\* that is not idempotent and its GET fails at the store
AddLookupFailed(r) ==
    /\ optImplementation = "Remote"
    /\ reqs[r].pc = "merchant"
    /\ \E v \in {Verified[reqs[r].input]} :
        /\ ChecksPassed(v, now)
        /\ ~Idempotent(v.method)
        /\ reqs' = [reqs EXCEPT ![r] =
               [@ EXCEPT !.pc = "nonceGet", !.addCalls = @ + 1,
                    !.exists = Exists(RemoteGetCatch.result),
                    !.ioErrors = @ \cup {"get"},
                    !.overlap = AddInFlight \ {r}]]
    /\ UNCHANGED <<others, waiter, now, optImplementation, optTtl, dataData, timerStart, timerMs,
                   redis, call>>

\* add found the key absent and its SETEX fails at the store
AddStoreFailed(r) ==
    /\ optImplementation = "Remote"
    /\ reqs[r].pc = "nonceGet"
    /\ ~reqs[r].exists
    /\ reqs' = [reqs EXCEPT ![r] =
           [@ EXCEPT !.pc = "nonceSet", !.ioErrors = @ \cup {"set"}]]
    /\ UNCHANGED <<others, waiter, now, optImplementation, optTtl, dataData, timerStart, timerMs,
                   redis, call>>

\* merchantConfig.get returns, the checks pass, add is called for a GET or
\* HEAD request and its SETEX fails at the store
IdempotentAddStoreFailed(r) ==
    /\ optImplementation = "Remote"
    /\ reqs[r].pc = "merchant"
    /\ \E v \in {Verified[reqs[r].input]} :
        /\ ChecksPassed(v, now)
        /\ Idempotent(v.method)
        /\ reqs' = [reqs EXCEPT ![r] =
               [@ EXCEPT !.pc = "nonceSet", !.addCalls = @ + 1,
                    !.ioErrors = @ \cup {"set"},
                    !.overlap = AddInFlight \ {r}]]
    /\ UNCHANGED <<others, waiter, now, optImplementation, optTtl, dataData, timerStart, timerMs,
                   redis, call>>

OutageInit == Init /\ optImplementation = "Remote"

\* the steps of Next that the shared backend takes (it has no purge waiter),
\* and the failing commands
OutageNext ==
    \/ \E r \in ReqIds, req \in Requests : Receive(r, req)
    \/ \E r \in ReqIds, lookupThrows \in BOOLEAN : MerchantResolved(r, lookupThrows)
    \/ \E r \in ReqIds : NonceLookedUp(r)
    \/ \E r \in ReqIds : NonceStored(r)
    \/ Tick
    \/ \E r \in ReqIds : AddLookupFailed(r)
    \/ \E r \in ReqIds : AddStoreFailed(r)
    \/ \E r \in ReqIds : IdempotentAddStoreFailed(r)

OutageSpec == OutageInit /\ [][OutageNext]_vars

\* C19: on the shared backend, when the GET that add sends for a request
\* that is not idempotent fails at the store, add takes the key for absent,
\* goes on to store it and returns true: the request is not rejected by the
\* replay guard, and is accepted unless its body is malformed, also when the
\* same request was accepted before and its key is still in the store.
C19_LookupFailureIsMiss ==
    \A r \in ReqIds :
        "get" \in reqs[r].ioErrors =>
            /\ NonIdempotent(r)
            /\ reqs[r].addCalls = 1
            /\ ~reqs[r].exists
            /\ reqs[r].addResult # "false"
            /\ reqs[r].thrown # AuthError(25)
            /\ reqs[r].pc = "done" =>
                /\ reqs[r].addResult = "true"
                /\ JsonParseThrows(V(r).reqBody) \/ Accepted(reqs[r])

\* the request of slot 1 was accepted and its key is alive in the store; the
\* same request arrived again afterwards, the GET of its add failed, and it
\* was accepted too
C19_Witness ==
    /\ reqs[1].input = "POST m1 n1" /\ Accepted(reqs[1])
    /\ reqs[1].ioErrors = {}
    /\ reqs[2].input = "POST m1 n1" /\ reqs[2].replayed
    /\ reqs[2].ioErrors = {"get"}
    /\ Accepted(reqs[2])
    /\ RemoteGet(redis, TokenOf(V(2)), now) # Undefined

\* the request of slot r was rejected with an AuthError
RejectedWithCode(r) == Rejected(r) /\ reqs[r].thrown.kind = "AuthError"

\* the failure condition behind the AuthError of slot r: which throw
\* statement raised it, told by what the request lacks.  The codes raised by
\* one statement only need no telling apart.
FailedCheck(r) ==
    LET req == Input(r)
        c == reqs[r].thrown.code
        merchant == req.authorization.Credential
    IN  CASE c = 16 ->
               IF \E i \in 1..Len(req.rawHeaders) :
                      ~HeaderKeyRegexTest(ToLowerCase(req.rawHeaders[i][1]))
               THEN "invalid header key"
               ELSE IF \E k \in SentHeaders(req) \ DeclaredSigned(req) :
                           CompulsoryHeader(k)
               THEN "compulsory header not signed"
               ELSE "duplicate header"
          [] c = 19 ->
               IF ReqHeader(req, "x-fomopay-nonce") = Undefined
               THEN "nonce header not found" ELSE "date header not found"
          [] c = 20 ->
               IF ~NonceRegexTest(ReqHeader(req, "x-fomopay-nonce"))
               THEN "bad nonce format" ELSE "date is no date"
          [] c = 21 ->
               IF ReqHeader(req, "x-fomopay-content-sha256") = Undefined
               THEN "digest header not found" ELSE "bad date format"
          [] c = 22 ->
               IF PayloadHashMismatch(ReqHeader(req, "x-fomopay-content-sha256"),
                                      Sha256Hex(RawBody(req)))
               THEN "digest mismatch" ELSE "bad date format"
          [] c = 23 ->
               IF ~MerchantRegistered(merchant) THEN "unknown tenant"
               ELSE IF MerchantPublicKey(merchant) = Undefined
               THEN "tenant without key"
               ELSE "bad signature"
          [] c = 25 ->
               IF reqs[r].addCalls = 0 THEN "stale timestamp" ELSE "replay"
          [] OTHER -> "the one condition of this code"

\* C20: no two different failure conditions raise the same AuthError code:
\* two requests rejected with the same code failed the same check.
C20_OneCodePerFailure ==
    \A r \in ReqIds, q \in ReqIds :
        (RejectedWithCode(r) /\ RejectedWithCode(q)
         /\ reqs[r].thrown.code = reqs[q].thrown.code)
            => FailedCheck(r) = FailedCheck(q)

\* the request of slot r passed the header checks and was rejected with an
\* AuthError because merchantConfig.get found no merchant
TenantNotRegistered(r) ==
    /\ RejectedWithCode(r) /\ V(r).kind = "ok"
    /\ ~MerchantRegistered(V(r).authorizationCredentialCredential)

\* ... because the merchant's publicKey is no string
TenantWithoutKey(r) ==
    /\ RejectedWithCode(r) /\ V(r).kind = "ok"
    /\ MerchantRegistered(V(r).authorizationCredentialCredential)
    /\ MerchantPublicKey(V(r).authorizationCredentialCredential) = Undefined

\* ... because verify.verify returned false
SignatureRefused(r) ==
    /\ RejectedWithCode(r) /\ V(r).kind = "ok"
    /\ MerchantRegistered(V(r).authorizationCredentialCredential)
    /\ MerchantPublicKey(V(r).authorizationCredentialCredential) # Undefined
    /\ ~VerifySignature(MerchantPublicKey(V(r).authorizationCredentialCredential),
                        V(r).stringToSign, V(r).authorizationCredentialSignature)

\* C21: the failure of a request whose tenant is not registered, and of one
\* whose tenant has no usable public key, carries another error code than
\* the failure of a request whose signature does not verify.
C21_TenantFailureCodeNotBadSignatureCode ==
    \A r \in ReqIds, q \in ReqIds :
        ((TenantNotRegistered(r) \/ TenantWithoutKey(r)) /\ SignatureRefused(q))
            => reqs[r].thrown.code # reqs[q].thrown.code

C23_EarlyFailureLeavesCache ==
    /\ [][\A r \in ReqIds :
            (/\ reqs[r].pc \in {"idle", "merchant"}
             /\ reqs'[r].pc = "done" /\ reqs'[r].thrown.kind # "none")
                => /\ dataData' = dataData /\ redis' = redis
                   /\ timerStart' = timerStart /\ timerMs' = timerMs
                   /\ reqs'[r].addCalls = 0]_vars
    /\ [](\A r \in ReqIds :
            (Received(r) /\ (V(r).kind # "ok" \/ ~SignatureValid(r)))
                => /\ reqs[r].addCalls = 0
                   /\ reqs[r].pc \in {"merchant", "done"})

\* the nonce of a request is in the cache, and a stale request of the same
\* tenant with the same nonce has been rejected without a call of add
C23_Witness ==
    \E r \in ReqIds, q \in ReqIds :
        /\ r # q
        /\ reqs[q].addResult = "true" /\ CacheHas(TokenOf(V(q)))
        /\ Rejected(r) /\ V(r).kind = "ok" /\ SamePair(r, q)
        /\ SignatureValid(r)
        /\ reqs[r].thrown = AuthError(25) /\ reqs[r].addCalls = 0

\* ---------------------------------------------------------------------
\* The two backends side by side: a local and a shared cache built with the
\* same ttl take the same calls at the same instants.  dataData is the
\* local instance, redis the store behind the shared one, which answers
\* every command.

\* the values the caller stores: two that serialize, and undefined
PairValues == {"v1", "v2", Undefined}

\* ConfigCacheLocal.set after the undefined check: the entry is written, the
\* waiter is cancelled and waits for the new interval
LocalSetEntry(data, key, value, ttl, options, t) ==
    MapPut(data, key, [exp |-> LocalExp(ttl, options, t), value |-> value])

\* ConfigCacheRemote.set after the undefined check, the store answering
RemoteSetEntry(store, key, value, ttl, options, t) ==
    IF RemoteExp(ttl, options, t) <= 0 \/ V8SerializeThrows(value) THEN store
    ELSE MapPut(store, GenerateKey(key),
                [exp |-> t + RemoteExp(ttl, options, t) * 1000,
                 value |-> V8Serialize(value)])

\* await local.set(key, value, options); await shared.set(key, value, options)
PairSet(key, value, options) ==
    /\ call.seq < MaxCalls
    /\ IF SetRejects(value)
       THEN /\ UNCHANGED <<dataData, timerStart, timerMs, redis>>
            /\ call' = [call EXCEPT !.seq = @ + 1, !.op = "set", !.key = key,
                            !.value = value, !.options = options,
                            !.threw = TRUE, !.result = Undefined]
       ELSE /\ dataData' = LocalSetEntry(dataData, key, value, optTtl, options, now)
            /\ timerStart' = now
            /\ timerMs' = LocalInterval(dataData', now)
            /\ redis' = RemoteSetEntry(redis, key, value, optTtl, options, now)
            /\ call' = [call EXCEPT !.seq = @ + 1, !.op = "set", !.key = key,
                            !.value = value, !.options = options,
                            !.threw = FALSE, !.result = Undefined]
    /\ UNCHANGED <<others, waiter, now, optImplementation, optTtl, reqs>>

\* await local.get(key) and await shared.get(key), the two results kept
PairGet(key) ==
    /\ call.seq < MaxCalls
    /\ call' = [call EXCEPT !.seq = @ + 1, !.op = "get", !.key = key,
                    !.value = "", !.options = NoOptions, !.threw = FALSE,
                    !.result = [local |-> LocalGet(dataData, key),
                                remote |-> RemoteGet(redis, key, now)]]
    /\ UNCHANGED <<others, waiter, now, optImplementation, optTtl, dataData, timerStart, timerMs,
                   redis, reqs>>

\* await local.del(key); await shared.del(key)
PairDel(key) ==
    /\ call.seq < MaxCalls
    /\ dataData' = MapDelete(dataData, key)
    /\ redis' = MapDelete(redis, GenerateKey(key))
    /\ call' = [call EXCEPT !.seq = @ + 1, !.op = "del", !.key = key,
                    !.value = "", !.options = NoOptions, !.threw = FALSE,
                    !.result = Undefined]
    /\ UNCHANGED <<others, waiter, now, optImplementation, optTtl, timerStart, timerMs, reqs>>

\* the timeout of the local instance's waiter fires
PairTimerFired ==
    /\ now - timerStart >= timerMs
    /\ dataData' = LocalPurge(dataData, now)
    /\ timerStart' = now
    /\ timerMs' = LocalInterval(dataData', now)
    /\ UNCHANGED <<others, waiter, now, optImplementation, optTtl, redis, reqs, call>>

PairInit ==
    /\ now = 0
    /\ optImplementation = "Local and Remote"
    /\ optTtl \in CacheTtlChoices
    /\ dataData = EmptyMap
    /\ timerStart = 0
    /\ timerMs = LocalInterval(EmptyMap, 0)
    /\ redis = EmptyMap
    /\ reqs = [r \in ReqIds |-> IdleRequest]
    /\ call = NoCall
    /\ waiter = WaiterAwaiting
    /\ OthersInit

PairNext ==
    \/ \E key \in CacheKeys, value \in PairValues, options \in SetOptions :
          PairSet(key, value, options)
    \/ \E key \in CacheKeys : PairGet(key)
    \/ \E key \in CacheKeys : PairDel(key)
    \/ Tick
    \/ PairTimerFired

PairSpec == PairInit /\ [][PairNext]_vars

\* C24: the two backends are interchangeable: every get returns the same
\* result, the same value or absent, from the local and from the shared
\* cache, after the same calls of set, get and del at the same instants
\* and with the store answering.
C24_BackendsAgree ==
    call.op = "get" => call.result.local = call.result.remote

\* ---------------------------------------------------------------------
\* The local cache with its purge loop step by step: a set cancels the
\* timer, which rejects the promise the loop awaits; the loop resumes in a
\* later microtask and calls delay(interval()) again.

\* await cache.set(key, "v1", options); the loop is not resumed yet
WaiterSet(key, options) ==
    /\ call.seq < MaxCalls
    /\ waiter.pc \in {"await", "rejected"}
    /\ dataData' = LocalSetEntry(dataData, key, "v1", optTtl, options, now)
    /\ waiter' = TimerCancel(waiter)
    /\ call' = [call EXCEPT !.seq = @ + 1, !.op = "set", !.key = key,
                    !.value = "v1", !.options = options, !.threw = FALSE,
                    !.result = Undefined]
    /\ UNCHANGED <<others, now, optImplementation, optTtl, timerStart, timerMs, redis, reqs>>

\* await cache.del(key): the timer is left as it is
WaiterDel(key) ==
    /\ call.seq < MaxCalls
    /\ waiter.pc \in {"await", "rejected"}
    /\ dataData' = MapDelete(dataData, key)
    /\ call' = [call EXCEPT !.seq = @ + 1, !.op = "del", !.key = key,
                    !.value = "", !.options = NoOptions, !.threw = FALSE,
                    !.result = Undefined]
    /\ UNCHANGED <<others, waiter, now, optImplementation, optTtl, timerStart, timerMs,
                   redis, reqs>>

\* the timeout of the timer is due: the runtime drops it and runs its
\* callback, this.done()
WaiterTimeout ==
    /\ waiter.pc = "await" /\ waiter.dataTimer = "pending"
    /\ now - timerStart >= timerMs
    /\ waiter' = TimerDone([waiter EXCEPT !.timeouts = @ - 1, !.dataTimer = "fired"],
                           FALSE)
    /\ UNCHANGED <<others, now, optImplementation, optTtl, dataData, timerStart, timerMs,
                   redis, reqs, call>>

\* the loop resumes: after a timeout it purges, after a cancel it runs the
\* empty catch block; then it calls timer.delay(this.interval())
WaiterResume ==
    /\ waiter.pc \in {"rejected", "resolved"}
    /\ dataData' = IF waiter.pc = "resolved" THEN LocalPurge(dataData, now)
                   ELSE dataData
    /\ waiter' = TimerDelay(waiter)
    /\ IF waiter.dataActive THEN UNCHANGED <<timerStart, timerMs>>
       ELSE timerStart' = now /\ timerMs' = LocalInterval(dataData', now)
    /\ UNCHANGED <<others, now, optImplementation, optTtl, redis, reqs, call>>

\* time passes once the microtasks have run
WaiterTick == waiter.pc = "await" /\ Tick

WaiterInit ==
    /\ now = 0
    /\ optImplementation = "Local"
    /\ optTtl \in CacheTtlChoices
    /\ dataData = EmptyMap
    /\ timerStart = 0
    /\ timerMs = LocalInterval(EmptyMap, 0)
    /\ redis = EmptyMap
    /\ reqs = [r \in ReqIds |-> IdleRequest]
    /\ call = NoCall
    /\ waiter = WaiterAwaiting
    /\ OthersInit

WaiterNext ==
    \/ \E key \in CacheKeys, options \in SetOptions : WaiterSet(key, options)
    \/ \E key \in CacheKeys : WaiterDel(key)
    \/ WaiterTimeout
    \/ WaiterResume
    \/ WaiterTick

WaiterSpec == WaiterInit /\ [][WaiterNext]_vars

\* The runtime runs the queued continuation of the loop, and runs the
\* callback of a timeout that is due and stays due.
WaiterFairSpec ==
    WaiterSpec /\ WF_vars(WaiterResume) /\ WF_vars(WaiterTimeout)

\* the expiration instants an entry can have
WaiterExps ==
    {LocalExp(ttl, options, t * kFreshnessMs) :
        ttl \in CacheTtlChoices, options \in SetOptions, t \in 0 .. (MaxTicks + 1)}

\* the instant the waiter's timeout is due
WakeInstant == timerStart + timerMs

\* C25: no lost wake-ups in the local backend.  Whenever the loop is not
\* waiting on a timeout its restart is queued, and whenever it waits, the
\* timeout is held by the runtime and is due no later than expiration +
\* 1000 ms of every entry (or at the instant the wait started, for an entry
\* whose expiration + 1000 ms had passed by then); and an entry whose
\* expiration + 1000 ms has passed is eventually purged, deleted or
\* overwritten.
C25_NoLostWakeUp ==
    /\ [](/\ waiter.pc \in {"await", "rejected", "resolved"}
          /\ waiter.pc = "await" =>
                /\ waiter.dataActive /\ waiter.dataTimer = "pending"
                /\ waiter.timeouts = 1
                /\ \A k \in DOMAIN dataData :
                      WakeInstant <= Max(timerStart, dataData[k].exp + kPurgeMarginMs))
    /\ \A k \in CacheKeys, e \in WaiterExps :
          (k \in DOMAIN dataData /\ dataData[k].exp = e /\ now >= e + kPurgeMarginMs)
              ~> ~(k \in DOMAIN dataData /\ dataData[k].exp = e)

\* two entries were set one after the other before the loop had resumed
\* from the first cancel: its restart is still queued, the timeout of the
\* empty cache is cleared
C25_Witness ==
    /\ call.seq = 2 /\ call.op = "set" /\ now = 0
    /\ DOMAIN dataData = CacheKeys
    /\ dataData["k1"].exp # dataData["k2"].exp
    /\ waiter.pc = "rejected" /\ ~waiter.dataActive /\ waiter.timeouts = 0
    /\ timerMs = kMaxInterval

\* C26: a local cache has at most one pending timeout.  The runtime never
\* holds more than one timeout of the timer, and holds one only while the
\* timer is active; delay() never throws for a delay in progress; and the
\* loop calls delay() only when the timer is not active and its previous
\* timeout has fired or been cleared.
C26_AtMostOnePendingTimer ==
    /\ [](/\ waiter.timeouts <= 1
          /\ waiter.timeouts = 1 => waiter.dataActive /\ waiter.dataTimer = "pending"
          /\ waiter.pc # "spinning")
    /\ [][(waiter.pc # "await" /\ waiter'.pc # waiter.pc)
            => /\ ~waiter.dataActive /\ waiter.timeouts = 0
               /\ waiter'.pc = "await" /\ waiter'.timeouts = 1]_vars

\* two entries are cached, the loop has been cancelled and has restarted,
\* and one timeout is pending, for the entry that expires first
C26_Witness ==
    /\ DOMAIN dataData = CacheKeys
    /\ dataData["k1"].exp < dataData["k2"].exp
    /\ call.seq >= 2
    /\ waiter.pc = "await" /\ waiter.timeouts = 1
    /\ timerStart = now
    /\ timerMs = dataData["k1"].exp - now + kPurgeMarginMs

\* C27: the verifier takes its steps in a fixed order and stops at the first
\* failure.  The tenant is looked up only for a request whose header, nonce,
\* digest and date checks have passed, and a request that fails one of them
\* ends without a lookup; the signature is verified before the date is
\* compared with the clock, so a request is rejected as out of the window
\* only when its signature is its tenant's, and a request whose signature is
\* refused is never rejected for its date; and add is called only in the
\* step in which the signature and the freshness check pass.
C27_FixedOrderFirstFailure ==
    /\ [](\A r \in ReqIds :
            /\ reqs[r].pc \in {"merchant", "nonceGet", "nonceSet"} => V(r).kind = "ok"
            /\ (Received(r) /\ V(r).kind # "ok")
                 => reqs[r].pc = "done" /\ reqs[r].thrown = V(r))
    /\ [][\A r \in ReqIds :
            /\ reqs[r].pc # reqs'[r].pc
                 => \/ reqs[r].pc = "idle" /\ reqs'[r].pc \in {"merchant", "done"}
                    \/ reqs[r].pc = "merchant"
                         /\ reqs'[r].pc \in {"nonceGet", "nonceSet", "done"}
                    \/ reqs[r].pc = "nonceGet" /\ reqs'[r].pc \in {"nonceSet", "done"}
                    \/ reqs[r].pc = "nonceSet" /\ reqs'[r].pc = "done"
            /\ (reqs[r].pc = "merchant" /\ reqs'[r].pc = "done"
                  /\ reqs'[r].thrown = AuthError(25))
                 => SignatureValid(r) /\ TimestampOutOfRange(now, V(r).dateTime)
            /\ (reqs[r].pc = "merchant" /\ reqs'[r].pc # "merchant"
                  /\ ~SignatureValid(r))
                 => /\ reqs'[r].pc = "done" /\ reqs'[r].addCalls = 0
                    /\ reqs'[r].thrown \in {AuthError(23), OtherError}
            /\ reqs'[r].addCalls # reqs[r].addCalls
                 => /\ reqs[r].pc = "merchant" /\ reqs[r].addCalls = 0
                    /\ SignatureValid(r)
                    /\ ~TimestampOutOfRange(now, V(r).dateTime)]_vars

\* a request whose signature is refused and whose date is out of the window
\* at the instant it is checked has been rejected for its signature
C27_Witness ==
    \E r \in ReqIds :
        /\ now = 0 /\ Rejected(r) /\ SignatureRefused(r)
        /\ TimestampOutOfRange(now, V(r).dateTime)
        /\ reqs[r].thrown = AuthError(23) /\ reqs[r].addCalls = 0

\* the step is the set of an add for token k: of an idempotent request, or
\* of a request whose lookup found nothing
AddSets(k) ==
    \E r \in ReqIds :
        /\ V(r).kind = "ok" /\ TokenOf(V(r)) = k
        /\ reqs'[r].pc = "nonceSet"
        /\ \/ reqs[r].pc = "merchant" /\ Idempotent(V(r).method)
           \/ reqs[r].pc = "nonceGet" /\ ~reqs[r].exists

\* C28 as claimed: once an entry exists, no step changes its value or its
\* expiration instant as long as it is in the cache.
C28_EntryNeverChanges ==
    [][/\ \A k \in DOMAIN dataData \cap DOMAIN dataData' : dataData'[k] = dataData[k]
       /\ \A k \in DOMAIN redis \cap DOMAIN redis' : redis'[k] = redis[k]]_vars

\* C28 as amended: the value of an entry never changes and its expiration
\* instant never moves back; it moves only in the set of an add for its
\* token (every add of an idempotent request, an add of another request only
\* when its lookup found nothing), to now + ttl; an add whose lookup found the
\* entry leaves the cache as it is; and an entry leaves the local cache only
\* when the purge finds it expired.
C28_EntryOnlyRefreshed ==
    /\ [][\A k \in DOMAIN dataData :
            \/ k \notin DOMAIN dataData' /\ dataData[k].exp <= now
            \/ /\ k \in DOMAIN dataData'
               /\ dataData'[k].value = dataData[k].value
               /\ dataData'[k].exp >= dataData[k].exp
               /\ dataData'[k].exp # dataData[k].exp
                    => AddSets(k) /\ dataData'[k].exp = now + optTtl * 1000]_vars
    /\ [][\A k \in DOMAIN redis :
            /\ k \in DOMAIN redis'
            /\ redis'[k].value = redis[k].value
            /\ redis'[k].exp >= redis[k].exp
            /\ redis'[k].exp # redis[k].exp
                 => /\ \E r \in ReqIds :
                          /\ V(r).kind = "ok" /\ GenerateKey(TokenOf(V(r))) = k
                          /\ AddSets(TokenOf(V(r)))
                    /\ redis'[k].exp = now + optTtl * 1000]_vars
    /\ [][\A r \in ReqIds :
            (reqs[r].pc = "nonceGet" /\ reqs[r].exists /\ reqs'[r] # reqs[r])
                => dataData' = dataData /\ redis' = redis]_vars

\* the nonce a POST had stored has been stored again, with a later
\* expiration, by the add of a GET of the same tenant with the same nonce
C28_Witness ==
    /\ now = kFreshnessMs /\ optImplementation = "Local"
    /\ reqs[1].input = "POST m1 n1" /\ Accepted(reqs[1])
    /\ reqs[2].input = "GET m1 n1" /\ Accepted(reqs[2])
    /\ reqs[2].overlap = {}
    /\ dataData[TokenOf(V(2))].exp = now + optTtl * 1000

\* how often the request carries a header of that name
Occurrences(req, name) ==
    Cardinality({i \in 1..Len(req.rawHeaders) : ToLowerCase(req.rawHeaders[i][1]) = name})

\* the requests that declare a signed header they do not carry exactly once
DeclaredNotOnce ==
    {name \in Requests :
        \E h \in DeclaredSigned(RequestTable[name]) :
            Occurrences(RequestTable[name], h) # 1}

\* the requests whose header checks pass with a collected header set that is
\* not the declared one
CollectedNotDeclared ==
    {name \in Requests :
        /\ Verified[name].kind = "ok"
        /\ DOMAIN Verified[name].headersRaw # DeclaredSigned(RequestTable[name])}

\* C29: whenever verification succeeds, the headers folded into the
\* canonical request and attached to the context are exactly the declared
\* signed headers, and each declared header occurs exactly once in the raw
\* header list; a request that declares a header it does not carry, or
\* carries a declared header twice, is rejected by the header checks.
C29_SignedHeadersExactlyOnce ==
    \A r \in ReqIds :
        /\ (Received(r) /\ reqs[r].input \in DeclaredNotOnce)
              => /\ Rejected(r) /\ reqs[r].thrown \in {AuthError(16), AuthError(17)}
                 /\ reqs[r].addCalls = 0 /\ ~ContinuedDownstream(r)
        /\ (Received(r) /\ V(r).kind = "ok")
              => reqs[r].input \notin CollectedNotDeclared \cup DeclaredNotOnce
        /\ Accepted(reqs[r])
              => /\ DOMAIN reqs[r].httpAuthentication.headers = DeclaredSigned(Input(r))
                 /\ reqs[r].httpAuthentication.headers = V(r).headersRaw

\* a request has been accepted, its attached headers being the declared
\* ones, each carried once; a request that carries a declared header twice
\* has been rejected with 0x0010
C29_Witness ==
    \E a \in ReqIds, b \in ReqIds :
        /\ Accepted(reqs[a])
        /\ DOMAIN reqs[a].httpAuthentication.headers = DeclaredSigned(Input(a))
        /\ \A h \in DeclaredSigned(Input(a)) : Occurrences(Input(a), h) = 1
        /\ reqs[b].input = "host twice" /\ Occurrences(Input(b), "host") = 2
        /\ Rejected(b) /\ reqs[b].thrown = AuthError(16)

\* the companion headers whose values the verifier checks
CompanionHeaders == {"x-fomopay-nonce", "x-fomopay-date", "x-fomopay-content-sha256"}

\* the requests that do not declare every companion header as signed
CompanionUndeclared ==
    {name \in Requests : ~(CompanionHeaders \subseteq DeclaredSigned(RequestTable[name]))}

\* the requests whose header checks pass on a value of a companion header
\* that is not the value folded into the canonical request
CompanionValueUnbound ==
    {name \in Requests :
        /\ Verified[name].kind = "ok"
        /\ \E h \in CompanionHeaders :
              \/ h \notin DOMAIN Verified[name].headersRaw
              \/ Verified[name].headersRaw[h] # ReqHeader(RequestTable[name], h)}

\* C30: whenever verification succeeds, the nonce, date and content-sha256
\* headers are declared signed headers, and the values the verifier checked
\* are the values folded into the canonical request; a request that does
\* not declare one of them is rejected by the header checks, whether it
\* carries the header or not.
C30_CompanionHeadersSigned ==
    \A r \in ReqIds :
        /\ (Received(r) /\ reqs[r].input \in CompanionUndeclared)
              => /\ Rejected(r) /\ V(r).kind = "AuthError"
                 /\ reqs[r].addCalls = 0 /\ ~ContinuedDownstream(r)
        /\ (Received(r) /\ V(r).kind = "ok")
              => reqs[r].input \notin CompanionValueUnbound
        /\ Accepted(reqs[r])
              => /\ CompanionHeaders \subseteq DOMAIN reqs[r].httpAuthentication.headers
                 /\ reqs[r].httpAuthentication.headers["x-fomopay-nonce"]
                        = V(r).xFomopayNonce

\* a request has been accepted with the three companion headers among its
\* signed headers; a request that carries its nonce header without
\* declaring it, signed for the headers it declares, has been rejected with
\* 0x0010
C30_Witness ==
    \E a \in ReqIds, b \in ReqIds :
        /\ Accepted(reqs[a])
        /\ CompanionHeaders \subseteq DeclaredSigned(Input(a))
        /\ CompanionHeaders \subseteq DOMAIN reqs[a].httpAuthentication.headers
        /\ reqs[b].input = "nonce sent, rest signed"
        /\ "x-fomopay-nonce" \in SentHeaders(Input(b)) \ DeclaredSigned(Input(b))
        /\ Rejected(b) /\ reqs[b].thrown = AuthError(16)

(***************************************************************************)
(* The local Mutex.  Callers acquire, tryAcquire and release; a caller     *)
(* asks for its next lock when it is not waiting and has released the      *)
(* lock object it holds, so that a caller has one lock object at a time.   *)
(* Keywords are taken as sets: a keyword listed twice is tested, set and   *)
(* deleted twice to the same effect.                                       *)
(***************************************************************************)

\* the state of the verifier before any request, the local cache empty
VerifierIdle ==
    /\ now = 0
    /\ optImplementation = "Local"
    /\ optTtl = 300
    /\ dataData = EmptyMap
    /\ timerStart = 0
    /\ timerMs = LocalInterval(EmptyMap, 0)
    /\ redis = EmptyMap
    /\ reqs = [r \in ReqIds |-> IdleRequest]
    /\ call = NoCall
    /\ waiter = WaiterAwaiting

\* new MutexLock(mutex, keywords)
MutexLock(keywords) ==
    [made |-> TRUE, optKeywords |-> keywords, dataUnlocked |-> FALSE, releaseCalls |-> 0]

\* a _tryAcquire that gives keyword locks while the global lock is held
TryAcquireIgnoringGlobal(m, keywords) ==
    IF keywords = {}
    THEN IF m.dataLocked \/ m.dataLocks # {}
         THEN [granted |-> FALSE, mutex |-> m]
         ELSE [granted |-> TRUE, mutex |-> [m EXCEPT !.dataLocked = TRUE]]
    ELSE IF keywords \cap m.dataLocks # {}
         THEN [granted |-> FALSE, mutex |-> m]
         ELSE [granted |-> TRUE, mutex |-> [m EXCEPT !.dataLocks = @ \cup keywords]]

\* Mutex._tryAcquire: granted tells whether a MutexLock is returned (and not
\* undefined), mutex is the mutex afterwards
TryAcquire(m, keywords) ==
    IF m.dataLocked
    THEN [granted |-> FALSE, mutex |-> m]
    ELSE IF keywords = {}
         THEN IF m.dataLocks # {}
              THEN [granted |-> FALSE, mutex |-> m]
              ELSE [granted |-> TRUE, mutex |-> [m EXCEPT !.dataLocked = TRUE]]
         ELSE IF keywords \cap m.dataLocks # {}
              THEN [granted |-> FALSE, mutex |-> m]
              ELSE [granted |-> TRUE, mutex |-> [m EXCEPT !.dataLocks = @ \cup keywords]]

\* the end of Mutex.unlock: the first pending element that _tryAcquire can
\* serve is taken out of dataPending and its callback gets the lock; then
\* unlock returns
GrantPending(m) ==
    LET grantable == {i \in 1 .. Len(m.dataPending) :
                        TryAcquire(m, m.dataPending[i].keywords).granted}
    IN  IF grantable = {}
        THEN m
        ELSE LET i == CHOOSE x \in grantable : \A y \in grantable : x <= y
                 pendingElement == m.dataPending[i]
                 got == TryAcquire(m, pendingElement.keywords).mutex
             IN  [got EXCEPT
                    !.dataPending = [x \in 1 .. Len(@) - 1 |->
                                        IF x < i THEN @[x] ELSE @[x + 1]],
                    !.lock[pendingElement.client] = MutexLock(pendingElement.keywords)]

\* Mutex.unlock(keywords)
Unlock(m, keywords) ==
    IF keywords = {}
    THEN IF ~m.dataLocked
         THEN [m EXCEPT !.thrown = "global lock repeated release"]
         ELSE GrantPending([m EXCEPT !.dataLocked = FALSE])
    ELSE IF m.dataLocked
         THEN [m EXCEPT !.thrown = "unlock a globally locked Mutex through partial lock"]
         ELSE IF ~(keywords \subseteq m.dataLocks)
              THEN [m EXCEPT !.thrown = "unlock a lock which has not been locked"]
              ELSE GrantPending(
                     [m EXCEPT
                        !.dataLocks = @ \ keywords,
                        !.dataPendingLocksCount =
                            [k \in Keywords |->
                                IF k \in keywords /\ @[k] > 0 THEN @[k] - 1 ELSE @[k]]])

\* a release() without the dataUnlocked flag
ReleaseUnguarded(m, c) ==
    Unlock([m EXCEPT !.lock[c].dataUnlocked = TRUE], m.lock[c].optKeywords)

\* MutexLock.release() on the lock object of caller c
Release(m, c) ==
    IF m.lock[c].dataUnlocked
    THEN m
    ELSE Unlock([m EXCEPT !.lock[c].dataUnlocked = TRUE], m.lock[c].optKeywords)

\* caller c has an acquire() pending
Pending(m, c) == \E i \in 1 .. Len(m.dataPending) : m.dataPending[i].client = c

\* caller c holds a lock it has not released
Holds(m, c) == m.lock[c].made /\ ~m.lock[c].dataUnlocked

\* Mutex.acquire(keywords) by caller c
MutexAcquire(c, keywords) ==
    /\ ~Pending(mutex, c)
    /\ ~Holds(mutex, c)
    /\ mutex' =
         IF Len(mutex.dataPending) >= kMaxPendingLocks
         THEN [mutex EXCEPT !.last = [op |-> "acquire", client |-> c],
                            !.thrown = "pending count reached upper limit"]
         ELSE IF \E k \in keywords : mutex.dataPendingLocksCount[k] >= kMaxLocksPerKeyword
              THEN [mutex EXCEPT !.last = [op |-> "acquire", client |-> c],
                                 !.thrown = "keyword pending count reached upper limit"]
              ELSE LET counted ==
                          [mutex EXCEPT
                             !.last = [op |-> "acquire", client |-> c],
                             !.thrown = "",
                             !.dataPendingLocksCount =
                                 [k \in Keywords |->
                                     IF k \in keywords THEN @[k] + 1 ELSE @[k]]]
                       tryAcquireLock == TryAcquire(counted, keywords)
                   IN  IF tryAcquireLock.granted
                       THEN [tryAcquireLock.mutex EXCEPT !.lock[c] = MutexLock(keywords)]
                       ELSE [counted EXCEPT
                               !.lock[c] = NoLock,
                               !.dataPending =
                                   Append(@, [keywords |-> keywords, client |-> c])]
    /\ UNCHANGED <<verifier, pool, conn, xchange>>

\* Mutex.tryAcquire(keywords) by caller c: the lock, or undefined (the caller
\* keeps the lock object it had)
MutexTryAcquire(c, keywords) ==
    /\ ~Pending(mutex, c)
    /\ ~Holds(mutex, c)
    /\ LET tryAcquireLock ==
             TryAcquire([mutex EXCEPT !.last = [op |-> "tryAcquire", client |-> c],
                                      !.thrown = ""], keywords)
       IN  mutex' = IF tryAcquireLock.granted
                    THEN [tryAcquireLock.mutex EXCEPT !.lock[c] = MutexLock(keywords)]
                    ELSE tryAcquireLock.mutex
    /\ UNCHANGED <<verifier, pool, conn, xchange>>

\* lock.release() by caller c, on the lock object it was given last: the
\* first call, or a repeated one
MutexRelease(c) ==
    /\ mutex.lock[c].made
    /\ mutex.lock[c].releaseCalls < MaxReleaseCalls
    /\ mutex' = Release([mutex EXCEPT !.last = [op |-> "release", client |-> c],
                                      !.thrown = "",
                                      !.lock[c].releaseCalls = @ + 1], c)
    /\ UNCHANGED <<verifier, pool, conn, xchange>>

MutexInit ==
    /\ VerifierIdle
    /\ OthersInit

MutexNext ==
    \/ \E c \in Clients, keywords \in SUBSET Keywords : MutexAcquire(c, keywords)
    \/ \E c \in Clients, keywords \in SUBSET Keywords : MutexTryAcquire(c, keywords)
    \/ \E c \in Clients : MutexRelease(c)

MutexSpec == MutexInit /\ [][MutexNext]_vars

\* C31: mutual exclusion of the local Mutex: no two locks that have not
\* been released have a keyword in common, and a global lock (no keywords)
\* is not held together with any other lock; the fields of the mutex say
\* exactly what is held.
C31_MutualExclusion ==
    /\ \A c1, c2 \in Clients :
         (c1 # c2 /\ Holds(mutex, c1) /\ Holds(mutex, c2))
            => /\ mutex.lock[c1].optKeywords # {}
               /\ mutex.lock[c2].optKeywords # {}
               /\ mutex.lock[c1].optKeywords \cap mutex.lock[c2].optKeywords = {}
    /\ mutex.dataLocked = (\E c \in Clients : Holds(mutex, c) /\ mutex.lock[c].optKeywords = {})
    /\ mutex.dataLocks = UNION {mutex.lock[c].optKeywords : c \in {x \in Clients : Holds(mutex, x)}}

\* two callers hold disjoint keyword locks while a third, refused, waits for the global lock
C31_Witness ==
    /\ \E c1, c2 \in Clients :
         /\ c1 # c2 /\ Holds(mutex, c1) /\ Holds(mutex, c2)
         /\ mutex.lock[c1].optKeywords = {"a"}
         /\ mutex.lock[c2].optKeywords = {"b"}
    /\ \E i \in 1 .. Len(mutex.dataPending) : mutex.dataPending[i].keywords = {}

\* a pending acquire that _tryAcquire would serve now: its keywords are all
\* free and no global lock is held (for the global lock: nothing is held)
Grantable(m) ==
    {i \in 1 .. Len(m.dataPending) : TryAcquire(m, m.dataPending[i].keywords).granted}

\* C32: no lost wake-up of the local Mutex: when an unlock call has returned
\* (a release that reached Mutex.unlock), no pending acquire is left whose
\* keywords are all free while no global lock is held.
C32_NoLostWakeUp ==
    [][\A c \in Clients :
         (MutexRelease(c) /\ ~mutex.lock[c].dataUnlocked) => Grantable(mutex') = {}]_vars

\* the callers release every lock they are given: release() of a held lock
\* is not put off forever (acquire and tryAcquire calls may come or not)
MutexFairSpec == MutexSpec /\ \A c \in Clients : WF_vars(MutexRelease(c))

\* C33: liveness of the local Mutex: every acquire that was queued as
\* pending is granted in the end, provided every granted lock is released
\* in the end, whatever acquire calls arrive meanwhile.
C33_PendingIsGranted ==
    \A c \in Clients : Pending(mutex, c) ~> Holds(mutex, c)

\* C34: MutexLock.release is idempotent: a second release() on the same
\* lock object changes nothing in the mutex (no keyword and no global lock
\* is unlocked, nobody is woken, also when the keywords have been granted
\* to another caller meanwhile), and no release raises an inconsistency
\* error.
C34_ReleaseIdempotent ==
    /\ [](mutex.thrown = "")
    /\ [][\A c \in Clients :
            (MutexRelease(c) /\ mutex.lock[c].dataUnlocked)
               => /\ mutex'.dataLocks = mutex.dataLocks
                  /\ mutex'.dataLocked = mutex.dataLocked
                  /\ mutex'.dataPending = mutex.dataPending
                  /\ mutex'.dataPendingLocksCount = mutex.dataPendingLocksCount
                  /\ \A d \in Clients \ {c} : mutex'.lock[d] = mutex.lock[d]
                  /\ mutex'.lock[c] = [mutex.lock[c] EXCEPT !.releaseCalls = @ + 1]]_vars

\* a caller has just called release() a second time on its lock object
\* while another caller holds a lock on the same keyword
C34_Witness ==
    \E c, d \in Clients :
        /\ c # d
        /\ mutex.last = [op |-> "release", client |-> c]
        /\ mutex.lock[c].releaseCalls = 2
        /\ mutex.lock[c].optKeywords = {"a"}
        /\ Holds(mutex, d)
        /\ mutex.lock[d].optKeywords = {"a"}

(***************************************************************************)
(* The PromisePool.  A job is one run(data) call; its data says what       *)
(* optJob(data) does: return a promise that resolves, return a promise     *)
(* that rejects, or throw before it returns a promise.                     *)
(***************************************************************************)
JobOutcomes == {"resolves", "rejects", "throws"}

\* options.concurrencyLevel
ConcurrencyLevels == {1, 2}

RECURSIVE Trigger(_), TriggerLoop(_, _)

\* PromisePool.spawn(job), up to the await: optJob(data) is called.  When
\* it throws, the catch rejects and the finally block runs at once, inside
\* the caller's loop; otherwise the job runs until PoolSettle
Spawn(p, job) ==
    IF p.jobs[job].data = "throws"
    THEN Trigger([p EXCEPT !.jobs[job].state = "rejected",
                           !.started = Append(@, job),
                           !.dataRunnerJobs = @ - 1])
    ELSE [p EXCEPT !.jobs[job].state = "running", !.started = Append(@, job)]

\* the while loop of PromisePool.trigger, runningJobs being its local
\* counter, and the assignment after it
TriggerLoop(p, runningJobs) ==
    IF runningJobs < p.optConcurrencyLevel /\ p.dataQueue # <<>>
    THEN TriggerLoop(Spawn([p EXCEPT !.dataQueue = Tail(@)], Head(p.dataQueue)),
                     runningJobs + 1)
    ELSE [p EXCEPT !.dataRunnerJobs = runningJobs]

\* PromisePool.trigger
Trigger(p) ==
    IF p.dataRunnerJobs >= p.optConcurrencyLevel
    THEN p
    ELSE TriggerLoop(p, p.dataRunnerJobs)

\* PromisePool.run(data)
PoolRun(data) ==
    /\ Len(pool.jobs) < MaxJobs
    /\ pool' = Trigger([pool EXCEPT
                          !.jobs = Append(@, [data |-> data, state |-> "queued"]),
                          !.dataQueue = Append(@, Len(pool.jobs) + 1)])
    /\ UNCHANGED <<verifier, mutex, conn, xchange>>

\* the promise of job j settles: spawn goes on after its await, resolves or
\* rejects the promise of run, and runs its finally block
PoolSettle(j) ==
    /\ j \in 1 .. Len(pool.jobs)
    /\ pool.jobs[j].state = "running"
    /\ pool' = Trigger([pool EXCEPT
                          !.jobs[j].state =
                              IF pool.jobs[j].data = "resolves" THEN "resolved"
                              ELSE "rejected",
                          !.dataRunnerJobs = @ - 1])
    /\ UNCHANGED <<verifier, mutex, conn, xchange>>

PoolInit ==
    /\ VerifierIdle
    /\ mutex = NewMutex
    /\ pool \in {NewPromisePool(concurrencyLevel) : concurrencyLevel \in ConcurrencyLevels}
    /\ conn = NewDatabaseConnection
    /\ xchange = XchangeIdle

PoolNext ==
    \/ \E data \in JobOutcomes : PoolRun(data)
    \/ \E j \in 1 .. MaxJobs : PoolSettle(j)

PoolSpec == PoolInit /\ [][PoolNext]_vars

\* every started job settles in the end
PoolFairSpec == PoolSpec /\ \A j \in 1 .. MaxJobs : WF_vars(PoolSettle(j))

\* the jobs that have been started and have not settled
Running(p) == {j \in 1 .. Len(p.jobs) : p.jobs[j].state = "running"}

\* C35: concurrency bound of the PromisePool: the number of jobs that have
\* been started and have not settled is at most concurrencyLevel, whatever
\* the jobs do (resolve, reject, or throw before returning a promise).
C35_ConcurrencyBound == Cardinality(Running(pool)) <= pool.optConcurrencyLevel

\* job j was submitted with run and optJob has not been called for it
Queued(p, j) == j \in 1 .. Len(p.jobs) /\ p.jobs[j].state = "queued"

\* optJob has been called for job j
Started(p, j) == \E x \in 1 .. Len(p.started) : p.started[x] = j

\* C36: progress of the PromisePool: the counter dataRunnerJobs always
\* equals the number of started, unsettled jobs; the pool never has queued
\* jobs while no job is running; jobs are started in the order of their run
\* calls; and every job submitted with run is started in the end, provided
\* every started job settles in the end.
C36_Progress ==
    /\ [](pool.dataRunnerJobs = Cardinality(Running(pool)))
    /\ [](~(pool.dataQueue # <<>> /\ Running(pool) = {}))
    /\ [](\A x \in 1 .. Len(pool.started) : pool.started[x] = x)
    /\ \A j \in 1 .. MaxJobs : Queued(pool, j) ~> Started(pool, j)

(***************************************************************************)
(* The DatabaseConnection.  A call runs up to its await (the assertions,   *)
(* then poolClient.query) in one step; the pool client answers the         *)
(* queries in the order they were issued, each with a result or an error,  *)
(* and the call goes on after its await in a second step.  calls is the    *)
(* list of the calls made: what was called, whether it has issued a query  *)
(* on the pool client, and whether it is pending, done or has thrown.      *)
(***************************************************************************)
ConnOps == {"startTransaction", "query", "queryCursor", "commit", "rollback"}

\* DatabaseConnection.healthy
Healthy(c) == ~c.error /\ ~c.released

\* a releaseClient that does not look at #released
ReleaseClientUnguarded(c, e) ==
    [c EXCEPT !.released = TRUE, !.poolReleased = Append(@, e)]

\* DatabaseConnection.releaseClient(e): e is "error" when an error is
\* passed to poolClient.release, "clean" when none is
ReleaseClient(c, e) ==
    IF c.released
    THEN c
    ELSE [c EXCEPT !.released = TRUE, !.poolReleased = Append(@, e)]

\* a catch block that throws without giving the client back
FailWithoutRelease(c) == [c EXCEPT !.error = TRUE]

\* the catch block shared by the operations: #error = true,
\* releaseClient(enhancedError), throw enhancedError
Fail(c) == ReleaseClient([c EXCEPT !.error = TRUE], "error")

\* startTransaction, query, queryCursor, commit or rollback, up to the
\* await: the assertions, then the query is handed to the pool client
\* (queryCursor returns the cursor at once)
ConnCall(op) ==
    /\ Len(conn.calls) < MaxOps
    /\ LET asserted ==
             /\ Healthy(conn)
             /\ op = "startTransaction" => ~conn.inTransaction
             /\ op \in {"commit", "rollback"} => conn.inTransaction
       IN  conn' =
             IF ~asserted
             THEN Fail([conn EXCEPT !.calls =
                          Append(@, [op |-> op, queried |-> FALSE, state |-> "failed"])])
             ELSE IF op = "queryCursor"
                  THEN [conn EXCEPT !.calls =
                          Append(@, [op |-> op, queried |-> TRUE, state |-> "done"])]
                  ELSE [conn EXCEPT
                          !.calls = Append(@, [op |-> op, queried |-> TRUE,
                                               state |-> "pending"]),
                          !.inFlight = Append(@, Len(conn.calls) + 1)]
    /\ UNCHANGED <<verifier, mutex, pool, xchange>>

\* the pool client answers the oldest query: the call goes on after its
\* await, or its catch block runs
ConnAnswer(ok) ==
    /\ conn.inFlight # <<>>
    /\ LET i == Head(conn.inFlight)
           op == conn.calls[i].op
           answered == [conn EXCEPT !.inFlight = Tail(@)]
       IN  conn' =
             IF ok
             THEN [answered EXCEPT
                     !.calls[i].state = "done",
                     !.inTransaction =
                         IF op = "startTransaction" THEN TRUE
                         ELSE IF op \in {"commit", "rollback"} THEN FALSE
                         ELSE @]
             ELSE Fail([answered EXCEPT !.calls[i].state = "failed"])
    /\ UNCHANGED <<verifier, mutex, pool, xchange>>

\* DatabaseConnection.release
ConnRelease ==
    /\ Len(conn.calls) < MaxOps
    /\ conn' =
         IF ~conn.inTransaction /\ ~conn.error
         THEN ReleaseClient([conn EXCEPT !.calls =
                  Append(@, [op |-> "release", queried |-> FALSE, state |-> "done"])],
                  "clean")
         ELSE Fail([conn EXCEPT !.calls =
                  Append(@, [op |-> "release", queried |-> FALSE, state |-> "failed"])])
    /\ UNCHANGED <<verifier, mutex, pool, xchange>>

\* DatabaseConnection.disconnect
ConnDisconnect ==
    /\ Len(conn.calls) < MaxOps
    /\ conn' = ReleaseClient([conn EXCEPT !.calls =
                  Append(@, [op |-> "disconnect", queried |-> FALSE, state |-> "done"])],
                  "error")
    /\ UNCHANGED <<verifier, mutex, pool, xchange>>

ConnInit ==
    /\ VerifierIdle
    /\ OthersInit

ConnNext ==
    \/ \E op \in ConnOps : ConnCall(op)
    \/ \E ok \in BOOLEAN : ConnAnswer(ok)
    \/ ConnRelease
    \/ ConnDisconnect

ConnSpec == ConnInit /\ [][ConnNext]_vars

\* C37: whatever startTransaction, query, commit, rollback, release and
\* disconnect calls are made on a DatabaseConnection, failing ones too, the
\* pool client is released to the pool at most once.
C37_ReleasedAtMostOnce ==
    /\ Len(conn.poolReleased) <= 1
    /\ conn.released = (conn.poolReleased # <<>>)

\* the client has been released once although a failed call, a disconnect
\* and a release, in this order, each came to releaseClient
C37_Witness ==
    /\ Len(conn.poolReleased) = 1
    /\ \E i, j, k \in 1 .. Len(conn.calls) :
         /\ i < j /\ j < k
         /\ conn.calls[i].state = "failed"
         /\ conn.calls[j].op = "disconnect"
         /\ conn.calls[k].op = "release"

\* the calls that have thrown
Failed(c) == {i \in 1 .. Len(c.calls) : c.calls[i].state = "failed"}

\* the step gives the client back to the pool without an error
ReleasedCleanly ==
    /\ Len(conn'.poolReleased) = Len(conn.poolReleased) + 1
    /\ conn'.poolReleased[Len(conn'.poolReleased)] = "clean"

\* the step is a call of startTransaction, query, queryCursor, commit or
\* rollback made after some call has thrown
CalledAfterFailure ==
    /\ Failed(conn) # {}
    /\ Len(conn'.calls) = Len(conn.calls) + 1
    /\ conn'.calls[Len(conn'.calls)].op \in ConnOps

\* a call made after a failure throws and issues no query
LaterCallsFail ==
    CalledAfterFailure
        => /\ conn'.calls[Len(conn'.calls)].state = "failed"
           /\ ~conn'.calls[Len(conn'.calls)].queried
           /\ conn'.inFlight = conn.inFlight

\* C38: a DatabaseConnection is returned to the pool without an error flag
\* only if it has no open transaction and no operation on it has failed;
\* once any operation has failed the client has been released with the
\* error, and every later startTransaction, query, commit or rollback fails
\* without issuing a query on the pool client.
C38_FailureReleasesWithError ==
    /\ [][ReleasedCleanly => (~conn.inTransaction /\ Failed(conn') = {})]_vars
    /\ [](Failed(conn) # {} => conn.poolReleased = <<"error">>)
    /\ [][LaterCallsFail]_vars

\* C38, amended: a DatabaseConnection is returned to the pool without an
\* error flag only by a release() made while it has no open transaction and
\* no operation on it has failed; an operation that fails on a connection
\* that has not been released releases the client with the error (one that
\* fails after release() or disconnect() releases nothing more); after a
\* failure the connection is released, and every later startTransaction,
\* query, queryCursor, commit or rollback fails without issuing a query.
C38_FailureReleasesUnreleased ==
    /\ [][ReleasedCleanly => (~conn.inTransaction /\ Failed(conn') = {})]_vars
    /\ [](Failed(conn) # {} => conn.released)
    /\ [][(Failed(conn') # Failed(conn) /\ ~conn.released)
            => conn'.poolReleased = <<"error">>]_vars
    /\ [][LaterCallsFail]_vars

\* a query was answered with an error inside a transaction, the client went
\* back with the error, and a later rollback threw without a query
C38_Witness ==
    /\ conn.poolReleased = <<"error">>
    /\ conn.inTransaction
    /\ \E i, j \in 1 .. Len(conn.calls) :
         /\ i < j
         /\ conn.calls[i].op = "query"
         /\ conn.calls[i].queried
         /\ conn.calls[i].state = "failed"
         /\ conn.calls[j].op = "rollback"
         /\ ~conn.calls[j].queried
         /\ conn.calls[j].state = "failed"

(***************************************************************************)
(* The Xchange client: requestWithRetry and request.  A response says      *)
(* what one request meets: an error thrown by fetch or by the read of the  *)
(* body (a FetchError with its type and code), or the status, headers,     *)
(* timestamp, signature, nonce and body that request verifies.             *)
(***************************************************************************)
\* an error: a FetchError of node-fetch with its type and code, or any
\* other error with its message; the message "" stands for no error
XchangeError(fetchError, type, code, message) ==
    [fetchError |-> fetchError, type |-> type, code |-> code, message |-> message]

\* what the Xchange service (and the network) may answer: the response that
\* request accepts, and responses that differ from it in one respect
Responses ==
    LET noError == XchangeError(FALSE, "", "", "")
        good ==
            [fetch |-> noError, status |-> 200, headers |-> TRUE, version |-> "1",
             contentType |-> "application/json", method |-> "SHA256WithRSA",
             skew |-> 0, body |-> noError, signed |-> TRUE, nonceFresh |-> TRUE,
             json |-> TRUE, error_code |-> 0, result_code |-> 0, dataIsObject |-> TRUE]
    IN  {good,
         [good EXCEPT !.contentType = "application/json; charset=utf-8"],
         [good EXCEPT !.skew = -300]}
        \cup {[good EXCEPT !.fetch = XchangeError(TRUE, type, "", "fetch")] :
                type \in {"request-timeout", "body-timeout", "max-redirect"}}
        \cup {[good EXCEPT !.fetch = XchangeError(TRUE, "system", code, "fetch")] :
                code \in {"ETIMEDOUT", "ECONNRESET", "ESOCKETTIMEDOUT", "ECONNABORTED",
                          "ECONNREFUSED", "ENOTFOUND"}}
        \cup {[good EXCEPT !.body = XchangeError(TRUE, type, "", "fetch")] :
                type \in {"body-timeout", "max-size"}}
        \cup {[good EXCEPT !.fetch = XchangeError(FALSE, "", "ECONNRESET", "not a FetchError")],
              [good EXCEPT !.status = 500],
              [good EXCEPT !.headers = FALSE],
              [good EXCEPT !.version = "2"],
              [good EXCEPT !.contentType = "text/html"],
              [good EXCEPT !.method = "SHA1WithRSA"],
              [good EXCEPT !.skew = 301],
              [good EXCEPT !.signed = FALSE],
              [good EXCEPT !.nonceFresh = FALSE],
              [good EXCEPT !.json = FALSE],
              [good EXCEPT !.error_code = 1],
              [good EXCEPT !.result_code = 1],
              [good EXCEPT !.dataIsObject = FALSE]}

\* Xchange.request: the error it throws for a response, XchangeError(FALSE,
\* "", "", "") when it returns the data
Request(res) ==
    IF res.fetch.message # "" THEN res.fetch
    ELSE IF res.status # 200
    THEN XchangeError(FALSE, "", "", "Response HTTP status code does not equal to 200.")
    ELSE IF ~res.headers
    THEN XchangeError(FALSE, "", "", "mandatory header missing")
    ELSE IF res.version # "1"
    THEN XchangeError(FALSE, "", "", "Response X-Authentication-Version is invalid.")
    ELSE IF res.contentType \notin {"application/json", "application/json; charset=utf-8"}
    THEN XchangeError(FALSE, "", "", "Response Content-Type is invalid.")
    ELSE IF res.method # "SHA256WithRSA"
    THEN XchangeError(FALSE, "", "", "Response X-Authentication-Method is invalid.")
    ELSE IF ~(res.skew <= 300 /\ -res.skew <= 300)
    THEN XchangeError(FALSE, "", "", "Response timestamp out of range.")
    ELSE IF res.body.message # "" THEN res.body
    ELSE IF ~res.signed
    THEN XchangeError(FALSE, "", "", "Xchange response signature cannot be verified.")
    ELSE IF ~res.nonceFresh
    THEN XchangeError(FALSE, "", "", "Invalid or duplicate nonce.")
    ELSE IF ~res.json
    THEN XchangeError(FALSE, "", "", "SyntaxError")
    ELSE IF res.error_code # 0
    THEN XchangeError(FALSE, "", "", "Response JSON error_code does not equal to 0.")
    ELSE IF res.result_code # 0
    THEN XchangeError(FALSE, "", "", "Response JSON result_code does not equal to 0.")
    ELSE IF ~res.dataIsObject
    THEN XchangeError(FALSE, "", "", "Response JSON data is not a valid object.")
    ELSE XchangeError(FALSE, "", "", "")

\* a retry test that retries after any error of fetch
RetryableAnyFetchError(e) == e.fetchError

\* the catch block of requestWithRetry: whether the loop continues
Retryable(e) ==
    /\ e.fetchError
    /\ \/ e.type \in {"body-timeout", "request-timeout"}
       \/ e.code \in {"ETIMEDOUT", "ECONNRESET", "ESOCKETTIMEDOUT", "ECONNABORTED",
                      "ECONNREFUSED"}

\* requestWithRetry(tries, url, json) is called: the assertion on tries
XchangeCall(tries) ==
    /\ xchange.pc = "idle"
    /\ xchange' =
         IF tries > 0
         THEN [xchange EXCEPT !.pc = "trying", !.tries = tries]
         ELSE [xchange EXCEPT
                 !.pc = "thrown", !.tries = tries,
                 !.thrown = "Argument tries must be greater than 0."]
    /\ UNCHANGED <<verifier, mutex, pool, conn>>

\* one turn of the loop of requestWithRetry: request is awaited and meets
\* res; the data is returned, or the catch block continues the loop or
\* throws; a loop that has run out throws "Too many fails"
XchangeAttempt(res) ==
    /\ xchange.pc = "trying"
    /\ xchange.i < xchange.tries
    /\ LET e == Request(res)
           tried == [xchange EXCEPT !.attempts = Append(@, e)]
       IN  xchange' =
             IF e.message = ""
             THEN [tried EXCEPT !.pc = "returned", !.returned = TRUE]
             ELSE IF Retryable(e)
                  THEN IF xchange.i + 1 < xchange.tries
                       THEN [tried EXCEPT !.i = @ + 1]
                       ELSE [tried EXCEPT !.i = @ + 1, !.pc = "thrown",
                                          !.thrown = "Too many fails"]
                  ELSE [tried EXCEPT !.pc = "thrown", !.thrown = e.message]
    /\ UNCHANGED <<verifier, mutex, pool, conn>>

XchangeInit ==
    /\ VerifierIdle
    /\ OthersInit

XchangeNext ==
    \/ \E tries \in 0 .. MaxTries : XchangeCall(tries)
    \/ \E res \in Responses : XchangeAttempt(res)

XchangeSpec == XchangeInit /\ [][XchangeNext]_vars

\* a timeout or a connection-level error of fetch
TimeoutOrConnectionError(e) ==
    /\ e.fetchError
    /\ \/ e.type = "request-timeout"
       \/ e.type = "body-timeout"
       \/ e.code = "ETIMEDOUT"
       \/ e.code = "ECONNRESET"
       \/ e.code = "ESOCKETTIMEDOUT"
       \/ e.code = "ECONNABORTED"
       \/ e.code = "ECONNREFUSED"

\* C39: requestWithRetry(tries, ...) makes at most tries attempts; an
\* attempt is followed by another one only if it failed with a timeout or a
\* connection-level fetch error; any other failure is thrown at once, as it
\* is; after tries failures of the retried kind the call fails with "Too
\* many fails"; a successful attempt ends the call.
C39_BoundedRetry ==
    LET n == Len(xchange.attempts)
    IN  /\ n <= xchange.tries \/ (n = 0 /\ xchange.tries <= 0)
        /\ xchange.i <= n
        /\ \A k \in 1 .. n - 1 : TimeoutOrConnectionError(xchange.attempts[k])
        /\ (n > 0 /\ xchange.attempts[n].message # ""
                  /\ ~TimeoutOrConnectionError(xchange.attempts[n]))
              => (xchange.pc = "thrown" /\ xchange.thrown = xchange.attempts[n].message)
        /\ (n > 0 /\ xchange.attempts[n].message = "") <=> xchange.pc = "returned"
        /\ (n > 0 /\ TimeoutOrConnectionError(xchange.attempts[n]))
              => IF n = xchange.tries
                 THEN xchange.pc = "thrown" /\ xchange.thrown = "Too many fails"
                 ELSE xchange.pc = "trying"
        /\ xchange.tries <= 0 /\ xchange.pc # "idle" => (xchange.pc = "thrown" /\ n = 0)

\* three attempts met a timeout, a reset connection and a body timeout: the
\* call of requestWithRetry(3, ...) has failed with "Too many fails"
C39_Witness ==
    /\ xchange.tries = 3
    /\ Len(xchange.attempts) = 3
    /\ xchange.attempts[1].type = "request-timeout"
    /\ xchange.attempts[2].code = "ECONNRESET"
    /\ xchange.attempts[3].type = "body-timeout"
    /\ xchange.pc = "thrown"
    /\ xchange.thrown = "Too many fails"

=============================================================================
